---- MODULE Spec2Model ----
(***************************************************************************)
(* Model of the monitor scheduling and health-evaluation engine of the     *)
(* uptime backend: the cron registry (monitoringJobs), the check pipeline  *)
(* (performHealthCheck -> updateMonitorWithResult -> handleMonitorDown /   *)
(* handleMonitorUp), the persisted Monitor / Check / Incident collections  *)
(* and the controller operations that drive them.                          *)
(*                                                                         *)
(* Every await of the JavaScript code is a step boundary: one action is    *)
(* the synchronous code that runs between two awaits.                      *)
(***************************************************************************)
EXTENDS Integers, Sequences, FiniteSets, TLC

\* ------------------------------------------------------------------ bounds
MaxTime == 3        \* the clock runs 0..MaxTime, one unit = half a minute
MaxChecks == 3      \* check pipelines started in one behaviour
MaxPipes == 2       \* check pipelines in flight at the same time
MaxDocs == 2        \* in-memory Monitor documents handed to the service
MaxIncidents == 2   \* incident documents ever created
MaxOps == 2         \* controller requests in one behaviour

MonitorIds == {"m1"}
TicksPerMinute == 2 \* clock units in one minute


\* --------------------------------------------------------------- evaluator
\* Monitor.js schema defaults.
DefaultExpectedStatus == 200
DefaultExpectedResponseTime == 5000
DefaultConfig == [type |-> "website",
                  expectedStatus |-> DefaultExpectedStatus,
                  expectedResponseTime |-> DefaultExpectedResponseTime]

\* A probe outcome: responded = the transport produced an answer (an HTTP
\* response, or a ping that reported success); statusCode is the HTTP status
\* of that answer (0 when there is none); responseTime in milliseconds.
Outcome(responded, statusCode, responseTime) ==
    [responded |-> responded, statusCode |-> statusCode, responseTime |-> responseTime]

\* axios: validateStatus: (status) => status < 500
ValidateStatus(status) == status < 500

\* The catch block of performHealthCheck: error.response?.status || 0.
CatchResult(o) ==
    [success |-> FALSE,
     responseTime |-> o.responseTime,
     statusCode |-> IF o.responded THEN o.statusCode ELSE 0,
     status |-> "down",
     error |-> IF o.responded THEN "request_failed_status" ELSE "transport_error"]

\* The website/api branch of performHealthCheck.
HttpResult(cfg, o) ==
    IF ~o.responded \/ ~ValidateStatus(o.statusCode) THEN CatchResult(o)
    ELSE LET r0 == [success |-> TRUE, responseTime |-> o.responseTime,
                    statusCode |-> o.statusCode, status |-> "up", error |-> "null"]
             r1 == IF cfg.expectedStatus # 0 /\ o.statusCode # cfg.expectedStatus
                   THEN [r0 EXCEPT !.success = FALSE, !.status = "down",
                                   !.error = "expected_status"]
                   ELSE r0
             r2 == IF cfg.expectedResponseTime # 0
                      /\ o.responseTime > cfg.expectedResponseTime
                   THEN [r1 EXCEPT !.success = FALSE, !.status = "down",
                                   !.error = "response_time"]
                   ELSE r1
         IN r2

\* The server branch: pingServer's result, then the response-time check.
ServerResult(cfg, o) ==
    LET r0 == [success |-> o.responded, responseTime |-> o.responseTime,
               statusCode |-> IF o.responded THEN 200 ELSE 0,
               status |-> IF o.responded THEN "up" ELSE "down",
               error |-> IF o.responded THEN "null" ELSE "ping_failed"]
    IN IF cfg.expectedResponseTime # 0 /\ o.responseTime > cfg.expectedResponseTime
       THEN [r0 EXCEPT !.success = FALSE, !.status = "down", !.error = "response_time"]
       ELSE r0

\* The port branch: a plain HTTP request, no expectation is looked at.
PortResult(cfg, o) ==
    IF ~o.responded \/ ~ValidateStatus(o.statusCode) THEN CatchResult(o)
    ELSE [success |-> TRUE, responseTime |-> o.responseTime,
          statusCode |-> o.statusCode, status |-> "up", error |-> "null"]

\* The result performHealthCheck hands to updateMonitorWithResult.
HealthCheckResult(cfg, o) ==
    IF cfg.type = "server" THEN ServerResult(cfg, o)
    ELSE IF cfg.type = "port" THEN PortResult(cfg, o)
    ELSE HttpResult(cfg, o)

\* performTestCheck: the server branch when type is 'server', else the same
\* request and expectation checks as the website/api branch.
TestCheckResult(cfg, o) ==
    IF cfg.type = "server" THEN ServerResult(cfg, o) ELSE HttpResult(cfg, o)

\* The configuration testMonitor passes on: no type, no expectedResponseTime.
TestConfig(expectedStatus) ==
    [type |-> "undefined", expectedStatus |-> expectedStatus, expectedResponseTime |-> 0]

\* Probe outcomes the scheduler behaviours draw from: 200 in 80 ms, and a
\* refused connection.
ProbeOutcomes == {Outcome(TRUE, 200, 80), Outcome(FALSE, 0, 10)}

\* ------------------------------------------------------------------- state
VARIABLES
    now,            \* the clock (Date.now()), in half minutes
    db,             \* the Monitor collection: id -> document; state says
                    \* whether it is not yet created, stored or deleted
    checks,         \* the Check collection: id -> number of check records
    incidents,      \* the Incident collection, in insertion order
    docs,           \* in-memory Monitor documents handed to the service, each
                    \* with the cron task (timer) whose callback captured it
    monitoringJobs, \* the monitoringJobs map: id -> index in docs, 0 = no entry
    pipes,          \* check pipelines in flight
    ops,            \* controller request in progress on a monitor
    started,        \* pipelines started so far
    requests,       \* controller requests accepted so far
    eval,           \* one evaluation of a probe outcome against a configuration
    alerts,         \* the Alert collection of one monitor: rule id -> document
    run,            \* one monitor checked by one cron task, check after check:
                    \* its in-memory document and the position of the pipeline
    sched,          \* one shouldTrigger call on a rule with a schedule, at an instant
    reload,         \* the reconciliation pass in progress: the monitors its query found
    firing,         \* the last firing of a cron callback: the document and interval it ran with
    cronJob,        \* one cron task: its interval, the time of day of its last firing, the gap before it
    response,       \* the answer to the last create / update request that carried an interval
    wait            \* one check waiting on its target or on the mail provider: the operation in flight and its timer

vars == <<now, db, checks, incidents, docs, monitoringJobs, pipes, ops, started,
          requests, eval, alerts, run, sched, reload, firing, cronJob, response, wait>>

PipeIds == 1..MaxPipes
DocIds == 1..MaxDocs
StatFields == {"lastStatus", "totalChecks", "successfulChecks", "failedChecks",
               "uptime"}
OpenStatuses == {"investigating", "identified", "monitoring"}

Exists(m) == db[m].state = "stored"

NoWrite == [f \in {} |-> 0]
NoResult == [success |-> FALSE, responseTime |-> 0, statusCode |-> 0,
             status |-> "down", error |-> "null"]
IdlePipe == [pc |-> "idle", kind |-> "none", mon |-> "none", doc |-> 0,
             result |-> NoResult, wasUp |-> FALSE, write |-> NoWrite,
             inc |-> 0, at |-> 0, duration |-> 0,
             prev |-> "none"]   \* the lastStatus wasUp was computed from
NoOp == [kind |-> "none", step |-> "none", doc |-> 0]

\* monitoringInterval of the Monitor schema, in seconds: default and limits.
DefaultMonitoringInterval == 300
MinMonitoringInterval == 30
MaxMonitoringInterval == 3600

\* Monitor.js schema defaults of a created monitor.
NewMonitor == [state |-> "stored", status |-> "active", lastStatus |-> "unknown",
               totalChecks |-> 0, successfulChecks |-> 0, failedChecks |-> 0,
               uptime |-> 0,    \* a percentage, in hundredths
               monitoringInterval |-> DefaultMonitoringInterval]
Unborn == [NewMonitor EXCEPT !.state = "unborn"]
Deleted == [NewMonitor EXCEPT !.state = "deleted"]

\* The in-memory document of stored document r of monitor m (a query
\* result, or what Monitor.create returns): no save in flight, no cron task.
Load(m, r) == [mon |-> m, status |-> r.status, lastStatus |-> r.lastStatus,
               totalChecks |-> r.totalChecks,
               successfulChecks |-> r.successfulChecks,
               failedChecks |-> r.failedChecks,
               uptime |-> r.uptime,
               monitoringInterval |-> r.monitoringInterval,
               saving |-> FALSE, timer |-> "none"]

NoEval == [cfg |-> DefaultConfig, probe |-> Outcome(FALSE, 0, 0),
           result |-> NoResult, by |-> "none"]

\* ---- Alert documents
RuleIds == {1, 2}
HistoryCap == 100               \* trigger keeps the last 100 history entries
RuleResponseTimeThreshold == 1000   \* conditions.responseTimeThreshold of the rules

\* One history entry as trigger pushes it; id is the _id of the
\* subdocument, in creation order (the ordinal of the firing).
HistoryEntry(id, at, channels) ==
    [id |-> id, triggeredAt |-> at, type |-> "alert", channels |-> channels,
     success |-> TRUE, error |-> "none"]

\* An Alert document that has fired n times, at time 0 or before: type,
\* status, conditions.downtimeThreshold, whether an enabled schedule excludes
\* the current time (schedule.enabled and not isWithinSchedule()), whether
\* the email channel is enabled with a recipient.
StoredAlert(type, status, threshold, offSchedule, email, n) ==
    [type |-> type, status |-> status, downtimeThreshold |-> threshold,
     responseTimeThreshold |-> RuleResponseTimeThreshold,
     offSchedule |-> offSchedule, email |-> email,
     lastTriggered |-> IF n = 0 THEN -1 ELSE 0,
     triggerCount |-> n,
     history |-> [i \in 1..(IF n > HistoryCap THEN HistoryCap ELSE n) |->
                    HistoryEntry(i + (IF n > HistoryCap THEN n - HistoryCap ELSE 0),
                                 0, IF email THEN <<"email">> ELSE <<>>)]]

\* The two alerts createDefaultAlerts stores for a user with email
\* notifications: downtime and uptime, downtimeThreshold 1, active.
DefaultAlert(type) == StoredAlert(type, "active", 1, FALSE, TRUE, 0)
NoAlerts == [r \in RuleIds |-> DefaultAlert(IF r = 1 THEN "downtime" ELSE "uptime")]

\* The monitor of the cron task before its first check, no pipeline running.
IdleRun ==
    [pc |-> "idle", cfg |-> DefaultConfig,
     lastStatus |-> "unknown", lastResponseTime |-> 0,
     result |-> NoResult, transport |-> FALSE, wasUp |-> FALSE, prev |-> "none",
     status |-> "none", queue |-> <<>>, fired |-> {}, faulty |-> FALSE,
     dispatch |-> "none", notified |-> [r \in RuleIds |-> 0],
     at |-> 0, failStreak |-> 0, upStreak |-> 0, open |-> 0, done |-> 0,
     faults |-> 0,
     undelivered |-> {}]    \* rules a notification of this check failed for

\* ---- Alert schedules
\* Days of the week as Date counts them, hours of the day 0..23. An instant
\* is a day and an hour in UTC; a zone is its offset from UTC in hours.
Days == 0..6
Monday == 1
Tuesday == 2
NoTime == -1    \* startTime / endTime not set

\* The day and hour an instant shows on a clock of the zone.
LocalHour(t, zone) == (t.hour + zone) % 24
LocalDay(t, zone) == (t.day + ((t.hour + zone) \div 24)) % 7

\* isWithinSchedule of a rule with schedule s when new Date() is instant t
\* in a process whose local zone is zone: toLocaleDateString and
\* toTimeString render the process's local time.
IsWithinSchedule(s, t, zone) ==
    IF ~s.enabled THEN TRUE
    ELSE IF LocalDay(t, zone) \notin s.days THEN FALSE
    ELSE IF s.startTime # NoTime /\ s.endTime # NoTime
         THEN LocalHour(t, zone) >= s.startTime /\ LocalHour(t, zone) <= s.endTime
    ELSE TRUE

NoSchedule == [enabled |-> FALSE, timezone |-> 0, days |-> {},
               startTime |-> NoTime, endTime |-> NoTime]
NoSched == [schedule |-> NoSchedule, t |-> [day |-> 0, hour |-> 0], zone |-> 0,
            result |-> FALSE, by |-> "none"]

\* A cron task of getCronExpression(0) that has not fired.
NoCronJob == [interval |-> 0, at |-> 0, gap |-> 0]

\* No create or update request has been answered.
NoResponse == [n |-> 0, mon |-> "none", outcome |-> "none"]

\* No cron callback has fired yet.
NoFiring == [doc |-> 0, mon |-> "none", monitoringInterval |-> 0]

\* No reconciliation pass (loadActiveMonitors) in progress.
NoReload == [pc |-> "idle", found |-> <<>>,
             outcome |-> "none",    \* how the last pass ended
             loaded |-> {}]         \* the documents it started a cron task for

\* ---- Blocking operations
NoLimit == -1   \* an awaited call that no timer bounds

\* What pingServer returns: success, the error, and which request decided.
NoPing == [success |-> FALSE, error |-> "null", via |-> "none"]

\* No check is waiting on anything.
NoWait == [pc |-> "idle", type |-> "website", timeout |-> 0, isUrl |-> TRUE,
           probeBegan |-> 0,    \* when performHealthCheck began its probe
           opBegan |-> 0,       \* when the awaited call in flight was made
           limit |-> NoLimit,   \* seconds after which its timer ends it
           pingError |-> "null",    \* the error the ping command failed with
           head |-> [responded |-> FALSE, statusCode |-> 0, responseTime |-> 0],
                                \* what the HEAD request of the fallback met
           ping |-> NoPing]

Init ==
    /\ wait = NoWait
    /\ response = NoResponse
    /\ cronJob = NoCronJob
    /\ firing = NoFiring
    /\ reload = NoReload
    /\ sched = NoSched
    /\ alerts = NoAlerts
    /\ run = IdleRun
    /\ now = 0
    /\ db = [m \in MonitorIds |-> Unborn]
    /\ checks = [m \in MonitorIds |-> 0]
    /\ incidents = <<>>
    /\ docs = <<>>
    /\ monitoringJobs = [m \in MonitorIds |-> 0]
    /\ pipes = [p \in PipeIds |-> IdlePipe]
    /\ ops = [m \in MonitorIds |-> NoOp]
    /\ started = 0
    /\ requests = 0
    /\ eval = NoEval

\* ---------------------------------------------------------------- Monitor
\* The virtual uptimePercentage of a document, in hundredths of a percent:
\* Math.round((successfulChecks / totalChecks) * 100 * 100) / 100, and 0
\* when totalChecks is 0. Math.round(x) is floor(x + 1/2).
UptimePercentage(d) ==
    IF d.totalChecks = 0 THEN 0
    ELSE (2 * d.successfulChecks * 10000 + d.totalChecks) \div (2 * d.totalChecks)

\* Monitor.updateStats up to its this.save(): the fields it assigns.
UpdateStats(d, isSuccess) ==
    LET counted == [d EXCEPT !.totalChecks = @ + 1,
                             !.lastStatus = IF isSuccess THEN "up" ELSE "down",
                             !.successfulChecks = IF isSuccess THEN @ + 1 ELSE @,
                             !.failedChecks = IF isSuccess THEN @ ELSE @ + 1]
    IN [counted EXCEPT !.uptime = UptimePercentage(counted)]

\* What save() sends: the paths whose value the assignments changed.
Delta(old, new) ==
    LET changed == {f \in StatFields : old[f] # new[f]}
    IN [f \in changed |-> new[f]]

\* The update a save() applies to the stored document: $set of the delta.
ApplyWrite(stored, w) ==
    [f \in DOMAIN stored |-> IF f \in DOMAIN w THEN w[f] ELSE stored[f]]

\* -------------------------------------------------------------- scheduler
\* startMonitoringJob on in-memory document d: a new cron task whose
\* callback holds d; the map entry is overwritten, a task already
\* registered under the id is not stopped.
StartMonitoringJob(ds, jobs, d) ==
    [docs |-> [ds EXCEPT ![d].timer = "running"],
     jobs |-> [jobs EXCEPT ![ds[d].mon] = d]]

\* stopMonitoringJob that stops and forgets every task when the id is
\* registered.
StopMonitoringJobMutAll(ds, jobs, m) ==
    IF jobs[m] # 0
    THEN [docs |-> [k \in DOMAIN ds |->
                      [ds[k] EXCEPT !.timer = IF @ = "running" THEN "stopped" ELSE @]],
          jobs |-> [x \in DOMAIN jobs |-> 0]]
    ELSE [docs |-> ds, jobs |-> jobs]

\* stopMonitoringJob: stops and forgets the task registered under the id.
StopMonitoringJob(ds, jobs, m) ==
    IF jobs[m] # 0
    THEN [docs |-> [ds EXCEPT ![jobs[m]].timer = "stopped"],
          jobs |-> [jobs EXCEPT ![m] = 0]]
    ELSE [docs |-> ds, jobs |-> jobs]

\* addMonitorToService
AddMonitorToService(ds, jobs, d) ==
    IF ds[d].status = "active" THEN StartMonitoringJob(ds, jobs, d)
    ELSE [docs |-> ds, jobs |-> jobs]

FreePipes == {p \in PipeIds : pipes[p].pc = "idle"}

\* The pipeline performHealthCheck(monitor) begins: the probe is in flight.
BeginPipe(p, kind, m, d) ==
    [pipes EXCEPT ![p] = [IdlePipe EXCEPT !.pc = "probe", !.kind = kind,
                                          !.mon = m, !.doc = d]]

Tick ==
    /\ now < MaxTime
    /\ now' = now + 1
    /\ UNCHANGED <<wait, response, cronJob, firing, reload, sched, alerts, run, eval, db, checks, incidents, docs, monitoringJobs, pipes, ops,
                   started, requests>>

\* The cron callback of a running task fires: performHealthCheck(monitor, io)
\* on the document the callback captured.
TimerFire(d) ==
    /\ d <= Len(docs)
    /\ docs[d].timer = "running"
    /\ started < MaxChecks
    /\ FreePipes # {}
    /\ LET p == CHOOSE q \in FreePipes : \A r \in FreePipes : q <= r
       IN pipes' = BeginPipe(p, "scheduled", docs[d].mon, d)
    /\ started' = started + 1
    /\ UNCHANGED <<wait, response, cronJob, firing, reload, sched, alerts, run, eval, now, db, checks, incidents, docs, monitoringJobs, ops, requests>>

\* ----------------------------------------------------------- the pipeline
\* The probe answers. performHealthCheck builds the result and calls
\* updateMonitorWithResult, which reads wasUp from the in-memory document
\* and calls storeCheckResult, whose check.save() is then in flight.
\* testMonitor with a monitorId: performTestCheck, then storeCheckResult.
ProbeDone(p, o) ==
    /\ pipes[p].pc = "probe"
    /\ LET r == IF pipes[p].kind = "test"
                THEN TestCheckResult(TestConfig(0), o)
                ELSE HealthCheckResult(DefaultConfig, o)
           w == IF pipes[p].kind = "test" THEN FALSE
                ELSE docs[pipes[p].doc].lastStatus = "up"
       IN pipes' = [pipes EXCEPT ![p].pc = "checkSave", ![p].result = r,
                                 ![p].wasUp = w,
                                 ![p].prev = IF pipes[p].kind = "test" THEN "none"
                                             ELSE docs[pipes[p].doc].lastStatus]
    /\ UNCHANGED <<wait, response, cronJob, firing, reload, sched, alerts, run, eval, now, db, checks, incidents, docs, monitoringJobs, ops,
                   started, requests>>

\* monitor.updateStats(...) where the rejected save() also ends the cron
\* task of the document.
DocUpdateStatsMutStopTimer(p) ==
    LET d == pipes[p].doc
        old == docs[d]
        new == UpdateStats(old, pipes[p].result.success)
    IN IF old.saving
       THEN [docs |-> [docs EXCEPT ![d] = [new EXCEPT !.timer = "stopped"]],
             pipe |-> [pipes[p] EXCEPT !.pc = "return", !.write = NoWrite]]
       ELSE [docs |-> [docs EXCEPT ![d] = [new EXCEPT !.saving = TRUE]],
             pipe |-> [pipes[p] EXCEPT !.pc = "docSave", !.write = Delta(old, new)]]

\* monitor.updateStats(...) of updateMonitorWithResult on the in-memory
\* document of pipeline p: the assignments, then this.save(). A save()
\* while another save() of the same document is in flight is rejected
\* (ParallelSaveError); the outer catch of updateMonitorWithResult logs it.
DocUpdateStats(p) ==
    LET d == pipes[p].doc
        old == docs[d]
        new == UpdateStats(old, pipes[p].result.success)
    IN IF old.saving
       THEN [docs |-> [docs EXCEPT ![d] = new],
             pipe |-> [pipes[p] EXCEPT !.pc = "return", !.write = NoWrite]]
       ELSE [docs |-> [docs EXCEPT ![d] = [new EXCEPT !.saving = TRUE]],
             pipe |-> [pipes[p] EXCEPT !.pc = "docSave", !.write = Delta(old, new)]]

\* check.save() of storeCheckResult completes: the check record is stored;
\* updateMonitorStats issues Monitor.findById.
CheckSaved(p) ==
    /\ pipes[p].pc = "checkSave"
    /\ checks' = [checks EXCEPT ![pipes[p].mon] = @ + 1]
    /\ pipes' = [pipes EXCEPT ![p].pc = "findById"]
    /\ UNCHANGED <<wait, response, cronJob, firing, reload, sched, alerts, run, eval, now, db, incidents, docs, monitoringJobs, ops, started, requests>>

\* Monitor.findById answers. Not found: 'Monitor not found' is thrown through
\* storeCheckResult; testMonitor and updateMonitorWithResult catch it, and
\* updateMonitorWithResult goes on to monitor.updateStats. Found:
\* updateStats on the freshly loaded document, whose save() is then in flight.
FindById(p) ==
    /\ pipes[p].pc = "findById"
    /\ LET m == pipes[p].mon
       IN IF Exists(m)
          THEN /\ pipes' = [pipes EXCEPT ![p].pc = "freshSave",
                              ![p].write = Delta(db[m], UpdateStats(db[m], pipes[p].result.status = "up"))]
               /\ docs' = docs
          ELSE IF pipes[p].kind = "test"
          THEN /\ pipes' = [pipes EXCEPT ![p].pc = "return"]
               /\ docs' = docs
          ELSE /\ pipes' = [pipes EXCEPT ![p] = DocUpdateStats(p).pipe]
               /\ docs' = DocUpdateStats(p).docs
    /\ UNCHANGED <<wait, response, cronJob, firing, reload, sched, alerts, run, eval, now, db, checks, incidents, monitoringJobs, ops, started, requests>>

\* The save() of the freshly loaded document completes (on a deleted
\* document it rejects, and the rejection is caught as above).
\* updateMonitorWithResult then calls monitor.updateStats.
FreshSaved(p) ==
    /\ pipes[p].pc = "freshSave"
    /\ LET m == pipes[p].mon
       IN db' = IF Exists(m) THEN [db EXCEPT ![m] = ApplyWrite(@, pipes[p].write)]
                ELSE db
    /\ IF pipes[p].kind = "test"
       THEN /\ pipes' = [pipes EXCEPT ![p].pc = "return", ![p].write = NoWrite]
            /\ docs' = docs
       ELSE /\ pipes' = [pipes EXCEPT ![p] = DocUpdateStats(p).pipe]
            /\ docs' = DocUpdateStats(p).docs
    /\ UNCHANGED <<wait, response, cronJob, firing, reload, sched, alerts, run, eval, now, checks, incidents, monitoringJobs, ops, started, requests>>

\* "Handle status changes" of updateMonitorWithResult: the next step of a
\* pipeline whose stats are saved.
StatusChangeMutAnyDown(wasUp, isUp) ==
    IF ~isUp THEN "incidentCreate"
    ELSE IF ~wasUp /\ isUp THEN "incidentFind"
    ELSE "return"

\* "Handle status changes" that never calls handleMonitorUp.
StatusChangeMutNoRecovery(wasUp, isUp) ==
    IF wasUp /\ ~isUp THEN "incidentCreate"
    ELSE "return"

StatusChange(wasUp, isUp) ==
    IF wasUp /\ ~isUp THEN "incidentCreate"
    ELSE IF ~wasUp /\ isUp THEN "incidentFind"
    ELSE "return"

\* The save() of the in-memory document completes. On a deleted document
\* it rejects and the outer catch ends updateMonitorWithResult. Otherwise
\* the status change is handled: handleMonitorDown calls Incident.create
\* (startedAt: new Date()), handleMonitorUp calls Incident.findOne.
DocSaved(p) ==
    /\ pipes[p].pc = "docSave"
    /\ LET m == pipes[p].mon
           d == pipes[p].doc
       IN /\ docs' = [docs EXCEPT ![d].saving = FALSE]
          /\ IF Exists(m)
             THEN /\ db' = [db EXCEPT ![m] = ApplyWrite(@, pipes[p].write)]
                  /\ pipes' = [pipes EXCEPT
                        ![p].pc = StatusChange(pipes[p].wasUp, pipes[p].result.success),
                        ![p].write = NoWrite,
                        ![p].at = IF pipes[p].wasUp /\ ~pipes[p].result.success
                                  THEN now ELSE 0]
             ELSE /\ db' = db
                  /\ pipes' = [pipes EXCEPT ![p].pc = "return", ![p].write = NoWrite]
    /\ UNCHANGED <<wait, response, cronJob, firing, reload, sched, alerts, run, eval, now, checks, incidents, monitoringJobs, ops, started, requests>>

\* --------------------------------------------------------------- incidents
Unset == -1     \* a Date path that holds no value

\* Math.round((resolvedAt - startedAt) / (1000 * 60)) on clock units:
\* Math.round(x) is floor(x + 1/2).
RoundMinutes(ticks) == (2 * ticks + TicksPerMinute) \div (2 * TicksPerMinute)

IncidentIds == 1..Len(incidents)
OpenIncidents(m) ==
    {i \in IncidentIds : /\ incidents[i].stored
                         /\ incidents[i].monitor = m
                         /\ incidents[i].status \in OpenStatuses}

\* The document Incident.create stores (schema defaults for the rest).
NewIncident(m, startedAt, description, origin) ==
    [monitor |-> m, status |-> "investigating", startedAt |-> startedAt,
     resolvedAt |-> Unset, duration |-> 0, updates |-> <<>>,
     description |-> description, origin |-> origin, stored |-> TRUE]

\* Incident.addUpdate(status, ...) followed by the completion of its save():
\* the stored document after the update.
AddUpdate(inc, status, at) ==
    [inc EXCEPT !.updates = Append(@, status),
                !.status = status,
                !.resolvedAt = IF status = "resolved" THEN at ELSE @,
                !.duration = IF status = "resolved"
                             THEN RoundMinutes(at - inc.startedAt) ELSE @]

\* handleMonitorDown: Incident.create completes; the incident is stored.
IncidentCreated(p) ==
    /\ pipes[p].pc = "incidentCreate"
    /\ Len(incidents) < MaxIncidents
    /\ incidents' = Append(incidents,
          NewIncident(pipes[p].mon, pipes[p].at, pipes[p].result.error, "pipeline"))
    /\ pipes' = [pipes EXCEPT ![p].pc = "return", ![p].at = 0]
    /\ UNCHANGED <<wait, response, cronJob, firing, reload, sched, alerts, run, eval, now, db, checks, docs, monitoringJobs, ops, started, requests>>

\* handleMonitorUp: Incident.findOne answers with an open incident of the
\* monitor, or with none. activeIncident.resolve(...) assigns resolvedAt =
\* new Date() and the duration, and its save() is then in flight.
IncidentFound(p) ==
    /\ pipes[p].pc = "incidentFind"
    /\ IF OpenIncidents(pipes[p].mon) = {}
       THEN pipes' = [pipes EXCEPT ![p].pc = "return"]
       ELSE \E i \in OpenIncidents(pipes[p].mon) :
              pipes' = [pipes EXCEPT ![p].pc = "incidentSave", ![p].inc = i,
                          ![p].at = now,
                          ![p].duration = AddUpdate(incidents[i], "resolved", now).duration]
    /\ UNCHANGED <<wait, response, cronJob, firing, reload, sched, alerts, run, eval, now, db, checks, incidents, docs, monitoringJobs, ops,
                   started, requests>>

\* The save() of the resolved incident completes: $set of status, resolvedAt
\* and duration, $push of the update. On a deleted incident it rejects and
\* the catch of handleMonitorUp logs it.
IncidentSaved(p) ==
    /\ pipes[p].pc = "incidentSave"
    /\ LET i == pipes[p].inc
       IN incidents' =
            IF incidents[i].stored
            THEN [incidents EXCEPT ![i] =
                    [AddUpdate(@, "resolved", pipes[p].at) EXCEPT
                        !.duration = pipes[p].duration]]
            ELSE incidents
    /\ pipes' = [pipes EXCEPT ![p].pc = "return", ![p].inc = 0, ![p].at = 0,
                              ![p].duration = 0]
    /\ UNCHANGED <<wait, response, cronJob, firing, reload, sched, alerts, run, eval, now, db, checks, docs, monitoringJobs, ops, started, requests>>

\* performHealthCheck returns. For the initial check of createMonitor the
\* controller continues with addMonitorToService(monitor, req.io).
PipeReturn(p) ==
    /\ pipes[p].pc = "return"
    /\ pipes' = [pipes EXCEPT ![p] = IdlePipe]
    /\ IF pipes[p].kind = "initial"
       THEN LET s == AddMonitorToService(docs, monitoringJobs, pipes[p].doc)
            IN docs' = s.docs /\ monitoringJobs' = s.jobs
       ELSE UNCHANGED <<docs, monitoringJobs>>
    /\ UNCHANGED <<wait, response, cronJob, firing, reload, sched, alerts, run, eval, now, db, checks, incidents, ops, started, requests>>

\* ------------------------------------------------------------- controllers
Idle(m) == ops[m] = NoOp

\* createMonitor: Monitor.create, then performHealthCheck(monitor) on the
\* created document is awaited (PipeReturn continues the request).
CreateMonitor(m) ==
    /\ db[m].state = "unborn"
    /\ Len(docs) < MaxDocs
    /\ started < MaxChecks
    /\ FreePipes # {}
    /\ db' = [db EXCEPT ![m] = NewMonitor]
    /\ docs' = Append(docs, Load(m, NewMonitor))
    /\ LET p == CHOOSE q \in FreePipes : \A r \in FreePipes : q <= r
       IN pipes' = BeginPipe(p, "initial", m, Len(docs) + 1)
    /\ started' = started + 1
    /\ UNCHANGED <<wait, response, cronJob, firing, reload, sched, alerts, run, eval, now, checks, incidents, monitoringJobs, ops, requests>>

\* updateMonitor: Monitor.findOneAndUpdate with a body that sets status.
UpdateMonitor(m, status) ==
    /\ Exists(m)
    /\ requests < MaxOps
    /\ db[m].status # status
    /\ db' = [db EXCEPT ![m].status = status]
    /\ requests' = requests + 1
    /\ UNCHANGED <<wait, response, cronJob, firing, reload, sched, alerts, run, eval, now, checks, incidents, docs, monitoringJobs, pipes, ops, started>>

\* updateMonitorStatus (admin): findById, monitor.status = status, save().
AdminUpdateMonitorStatus(m, status) ==
    /\ Exists(m)
    /\ requests < MaxOps
    /\ db[m].status # status
    /\ db' = [db EXCEPT ![m].status = status]
    /\ requests' = requests + 1
    /\ UNCHANGED <<wait, response, cronJob, firing, reload, sched, alerts, run, eval, now, checks, incidents, docs, monitoringJobs, pipes, ops, started>>

\* toggleMonitor up to the completion of monitor.save(): the status is
\* flipped in the loaded document and stored.
ToggleMonitor(m) ==
    /\ Exists(m)
    /\ Idle(m)
    /\ requests < MaxOps
    /\ LET wasActive == db[m].status = "active"
           flipped == [db[m] EXCEPT !.status = IF wasActive THEN "paused" ELSE "active"]
       IN /\ db' = [db EXCEPT ![m] = flipped]
          /\ IF wasActive
             THEN /\ ops' = [ops EXCEPT ![m] = [kind |-> "toggle", step |-> "remove", doc |-> 0]]
                  /\ docs' = docs
             ELSE /\ Len(docs) < MaxDocs
                  /\ docs' = Append(docs, Load(m, flipped))
                  /\ ops' = [ops EXCEPT ![m] = [kind |-> "toggle", step |-> "add",
                                                 doc |-> Len(docs) + 1]]
    /\ requests' = requests + 1
    /\ UNCHANGED <<wait, response, cronJob, firing, reload, sched, alerts, run, eval, now, checks, incidents, monitoringJobs, pipes, started>>

\* toggleMonitor after the import: removeMonitorFromService(monitor._id)
\* or addMonitorToService(monitor, req.io).
ToggleService(m) ==
    /\ ops[m].kind = "toggle"
    /\ LET s == IF ops[m].step = "remove"
                THEN StopMonitoringJob(docs, monitoringJobs, m)
                ELSE AddMonitorToService(docs, monitoringJobs, ops[m].doc)
       IN docs' = s.docs /\ monitoringJobs' = s.jobs
    /\ ops' = [ops EXCEPT ![m] = NoOp]
    /\ UNCHANGED <<wait, response, cronJob, firing, reload, sched, alerts, run, eval, now, db, checks, incidents, pipes, started, requests>>

\* Incident.deleteMany({ monitor: m })
DeleteIncidentsOf(m) ==
    [i \in IncidentIds |->
        IF incidents[i].monitor = m THEN [incidents[i] EXCEPT !.stored = FALSE]
        ELSE incidents[i]]

\* deleteMonitor: Monitor.findOneAndDelete removes the document.
DeleteMonitor(m) ==
    /\ Exists(m)
    /\ Idle(m)
    /\ requests < MaxOps
    /\ db' = [db EXCEPT ![m] = Deleted]
    /\ ops' = [ops EXCEPT ![m] = [kind |-> "delete", step |-> "stopJob", doc |-> 0]]
    /\ requests' = requests + 1
    /\ UNCHANGED <<wait, response, cronJob, firing, reload, sched, alerts, run, eval, now, checks, incidents, docs, monitoringJobs, pipes, started>>

\* deleteMonitor: removeMonitorFromService(monitor._id); Alert.deleteMany
\* is then in flight.
DeleteStopJob(m) ==
    /\ ops[m].kind = "delete" /\ ops[m].step = "stopJob"
    /\ LET s == StopMonitoringJob(docs, monitoringJobs, m)
       IN docs' = s.docs /\ monitoringJobs' = s.jobs
    /\ ops' = [ops EXCEPT ![m].step = "incidents"]
    /\ UNCHANGED <<wait, response, cronJob, firing, reload, sched, alerts, run, eval, now, db, checks, incidents, pipes, started, requests>>

\* deleteMonitor: Incident.deleteMany completes; the request is answered.
DeleteIncidents(m) ==
    /\ ops[m].kind = "delete" /\ ops[m].step = "incidents"
    /\ incidents' = DeleteIncidentsOf(m)
    /\ ops' = [ops EXCEPT ![m] = NoOp]
    /\ UNCHANGED <<wait, response, cronJob, firing, reload, sched, alerts, run, eval, now, db, checks, docs, monitoringJobs, pipes, started, requests>>

\* deleteMonitor (admin): Monitor.findById finds the monitor; the deleteMany
\* calls follow.
AdminDeleteMonitor(m) ==
    /\ Exists(m)
    /\ Idle(m)
    /\ requests < MaxOps
    /\ ops' = [ops EXCEPT ![m] = [kind |-> "adminDelete", step |-> "incidents", doc |-> 0]]
    /\ requests' = requests + 1
    /\ UNCHANGED <<wait, response, cronJob, firing, reload, sched, alerts, run, eval, now, db, checks, incidents, docs, monitoringJobs, pipes, started>>

\* deleteMonitor (admin): Incident.deleteMany completes.
AdminDeleteIncidents(m) ==
    /\ ops[m].kind = "adminDelete" /\ ops[m].step = "incidents"
    /\ incidents' = DeleteIncidentsOf(m)
    /\ ops' = [ops EXCEPT ![m].step = "monitor"]
    /\ UNCHANGED <<wait, response, cronJob, firing, reload, sched, alerts, run, eval, now, db, checks, docs, monitoringJobs, pipes, started, requests>>

\* deleteMonitor (admin): Monitor.findByIdAndDelete completes; the request
\* is answered. The monitoring service is not told.
AdminDeleteDocument(m) ==
    /\ ops[m].kind = "adminDelete" /\ ops[m].step = "monitor"
    /\ db' = [db EXCEPT ![m] = Deleted]
    /\ ops' = [ops EXCEPT ![m] = NoOp]
    /\ UNCHANGED <<wait, response, cronJob, firing, reload, sched, alerts, run, eval, now, checks, incidents, docs, monitoringJobs, pipes, started, requests>>

\* testMonitor with a monitorId: performTestCheck on the request's
\* configuration, whose result is then stored with storeCheckResult.
TestMonitor(m) ==
    /\ Exists(m)
    /\ requests < MaxOps
    /\ started < MaxChecks
    /\ FreePipes # {}
    /\ LET p == CHOOSE q \in FreePipes : \A r \in FreePipes : q <= r
       IN pipes' = BeginPipe(p, "test", m, 0)
    /\ started' = started + 1
    /\ requests' = requests + 1
    /\ UNCHANGED <<wait, response, cronJob, firing, reload, sched, alerts, run, eval, now, db, checks, incidents, docs, monitoringJobs, ops>>

\* startedAt values a createIncident body carries: none (the schema default
\* Date.now applies) or a date of its choice.
BodyStartedAt == {Unset, MaxTime}

\* createIncident: Incident.create({ ...req.body, user }) with a body that
\* names the monitor and may name a startedAt.
CreateIncident(m, startedAt) ==
    /\ Exists(m)
    /\ requests < MaxOps
    /\ Len(incidents) < MaxIncidents
    /\ incidents' = Append(incidents,
            NewIncident(m, IF startedAt = Unset THEN now ELSE startedAt,
                        "manual", "manual"))
    /\ requests' = requests + 1
    /\ UNCHANGED <<wait, response, cronJob, firing, reload, sched, alerts, run, eval, now, db, checks, docs, monitoringJobs, pipes, ops, started>>

\* ------------------------------------------------------------ specification
Next ==
    \/ Tick
    \/ \E d \in DocIds : TimerFire(d)
    \/ \E p \in PipeIds, o \in ProbeOutcomes : ProbeDone(p, o)
    \/ \E p \in PipeIds : CheckSaved(p)
    \/ \E p \in PipeIds : FindById(p)
    \/ \E p \in PipeIds : FreshSaved(p)
    \/ \E p \in PipeIds : DocSaved(p)
    \/ \E p \in PipeIds : IncidentCreated(p)
    \/ \E p \in PipeIds : IncidentFound(p)
    \/ \E p \in PipeIds : IncidentSaved(p)
    \/ \E p \in PipeIds : PipeReturn(p)
    \/ \E m \in MonitorIds : CreateMonitor(m)
    \/ \E m \in MonitorIds, s \in {"active", "paused"} : UpdateMonitor(m, s)
    \/ \E m \in MonitorIds, s \in {"active", "paused"} : AdminUpdateMonitorStatus(m, s)
    \/ \E m \in MonitorIds : ToggleMonitor(m)
    \/ \E m \in MonitorIds : ToggleService(m)
    \/ \E m \in MonitorIds : DeleteMonitor(m)
    \/ \E m \in MonitorIds : DeleteStopJob(m)
    \/ \E m \in MonitorIds : DeleteIncidents(m)
    \/ \E m \in MonitorIds : AdminDeleteMonitor(m)
    \/ \E m \in MonitorIds : AdminDeleteIncidents(m)
    \/ \E m \in MonitorIds : AdminDeleteDocument(m)
    \/ \E m \in MonitorIds : TestMonitor(m)
    \/ \E m \in MonitorIds, t \in BodyStartedAt : CreateIncident(m, t)

Spec == Init /\ [][Next]_vars

\* ------------------------------------------------- the evaluator on its own
\* Configurations and probe outcomes one evaluation is drawn from
\* (0 = the expectation is not set).
EvalTypes == {"website", "api", "server", "port"}
EvalExpectedStatus == {0, 200}
EvalExpectedResponseTime == {0, 1000}
EvalStatusCodes == {200, 404, 500}
EvalResponseTimes == {80, 1500}

EvalConfigs ==
    {[type |-> t, expectedStatus |-> e, expectedResponseTime |-> r] :
        t \in EvalTypes, e \in EvalExpectedStatus, r \in EvalExpectedResponseTime}
EvalProbes ==
    {Outcome(TRUE, c, t) : c \in EvalStatusCodes, t \in EvalResponseTimes}
    \cup {Outcome(FALSE, 0, t) : t \in EvalResponseTimes}

EvalInit ==
    /\ wait = NoWait
    /\ response = NoResponse
    /\ cronJob = NoCronJob
    /\ firing = NoFiring
    /\ reload = NoReload
    /\ sched = NoSched
    /\ alerts = NoAlerts
    /\ run = IdleRun
    /\ now = 0
    /\ db = [m \in MonitorIds |-> Unborn]
    /\ checks = [m \in MonitorIds |-> 0]
    /\ incidents = <<>>
    /\ docs = <<>>
    /\ monitoringJobs = [m \in MonitorIds |-> 0]
    /\ pipes = [p \in PipeIds |-> IdlePipe]
    /\ ops = [m \in MonitorIds |-> NoOp]
    /\ started = 0
    /\ requests = 0
    /\ eval \in {[cfg |-> c, probe |-> o, result |-> NoResult, by |-> "none"] :
                    c \in EvalConfigs, o \in EvalProbes}

\* performHealthCheck up to the call of updateMonitorWithResult.
EvalHealthCheck ==
    /\ eval.by = "none"
    /\ eval' = [eval EXCEPT !.result = HealthCheckResult(eval.cfg, eval.probe),
                            !.by = "performHealthCheck"]
    /\ UNCHANGED <<wait, response, cronJob, firing, reload, sched, alerts, run, now, db, checks, incidents, docs, monitoringJobs, pipes, ops,
                   started, requests>>

\* performTestCheck
EvalTestCheck ==
    /\ eval.by = "none"
    /\ eval' = [eval EXCEPT !.result = TestCheckResult(eval.cfg, eval.probe),
                            !.by = "performTestCheck"]
    /\ UNCHANGED <<wait, response, cronJob, firing, reload, sched, alerts, run, now, db, checks, incidents, docs, monitoringJobs, pipes, ops,
                   started, requests>>

EvalNext == EvalHealthCheck \/ EvalTestCheck

SpecEval == EvalInit /\ [][EvalNext]_vars

\* ------------------------------------- one monitor, check after check
\* The pipeline of one cron task with its alert stage, one check at a time,
\* where every awaited call of updateMonitorWithResult and of the handlers
\* may reject (a persistence or dispatch failure).
MaxRunChecks == 3   \* checks of the monitor in one behaviour
MaxFaults == 1      \* awaited calls that reject in one behaviour

AllAlerts == <<1, 2>>   \* the Alert collection in the order find returns it

\* The argument triggerAlerts passes to shouldTrigger.
MonitorData(status, lastResponseTime) ==
    [lastStatus |-> status,
     lastResponseTime |-> lastResponseTime,
     consecutiveFailures |-> IF status = "down" THEN 1 ELSE 0,
     consecutiveSuccesses |-> IF status = "up" THEN 1 ELSE 0]

CheckDowntimeCondition(a, d) ==
    d.lastStatus = "down" /\ d.consecutiveFailures >= a.downtimeThreshold

CheckUptimeCondition(a, d) ==
    d.lastStatus = "up" /\ d.consecutiveSuccesses >= a.downtimeThreshold

CheckSlowResponseCondition(a, d) ==
    d.lastResponseTime > a.responseTimeThreshold

ShouldTrigger(a, d) ==
    IF a.status # "active" THEN FALSE
    ELSE IF a.offSchedule THEN FALSE
    ELSE IF a.type = "downtime" THEN CheckDowntimeCondition(a, d)
    ELSE IF a.type = "uptime" THEN CheckUptimeCondition(a, d)
    ELSE IF a.type = "slow_response" THEN CheckSlowResponseCondition(a, d)
    ELSE FALSE

GetActiveChannels(a) == IF a.email THEN <<"email">> ELSE <<>>

\* this.history.slice(-100) when the history holds more than 100 entries.
KeepLastMutFirst(h) ==
    IF Len(h) > HistoryCap THEN SubSeq(h, 1, HistoryCap) ELSE h

KeepLast(h) ==
    IF Len(h) > HistoryCap THEN SubSeq(h, Len(h) - HistoryCap + 1, Len(h)) ELSE h

\* Alert.trigger up to the completion of its save(): the document stored.
Trigger(a, at) ==
    [a EXCEPT !.lastTriggered = at,
              !.triggerCount = @ + 1,
              !.history = KeepLast(Append(@,
                    HistoryEntry(a.triggerCount + 1, at, GetActiveChannels(a))))]

\* The alerts triggerAlerts calls triggerAlert on, in order: the documents
\* Alert.find({ monitor, status: 'active' }) returns for which shouldTrigger
\* holds.
AlertsToTriggerMutAnyStatus(d) ==
    LET Matches(r) == ShouldTrigger([alerts[r] EXCEPT !.status = "active"], d)
    IN SelectSeq(AllAlerts, Matches)

AlertsToTrigger(d) ==
    LET Found(r) == alerts[r].status = "active"
        Matches(r) == ShouldTrigger(alerts[r], d)
    IN SelectSeq(SelectSeq(AllAlerts, Found), Matches)

\* Where control continues when the awaited call at a site rejects: the
\* catch that encloses it. storeCheck: the inner catch of
\* updateMonitorWithResult, which goes on to monitor.updateStats.
\* updateStats: the outer catch, which ends updateMonitorWithResult.
\* incidentCreate, incidentFind, incidentResolve: the catch of the handler.
\* alertFind: the catch of triggerAlerts. alertSave: the catch of
\* triggerAlert, the loop goes on. dispatch: Promise.allSettled.
CaughtMutNoOuterCatch(site) ==
    IF site = "storeCheck" THEN "updateStats"
    ELSE IF site = "updateStats" THEN "rejected"
    ELSE IF site \in {"alertSave", "dispatch"} THEN "nextAlert"
    ELSE "return"

\* The same, where a rejected sendMonitorAlert is thrown to the catch of
\* triggerAlerts.
CaughtMutDispatchThrows(site) ==
    IF site = "storeCheck" THEN "updateStats"
    ELSE IF site = "alertSave" THEN "nextAlert"
    ELSE "return"

Caught(site) ==
    IF site = "storeCheck" THEN "updateStats"
    ELSE IF site \in {"alertSave", "dispatch"} THEN "nextAlert"
    ELSE "return"

\* The rejection of an awaited call, counted.
Fault(r) == [r EXCEPT !.faulty = TRUE, !.faults = @ + 1]

\* The for loop of triggerAlerts after the alert at the head of the queue:
\* alert.trigger of the next one (new Date(), save() in flight), or the end.
NextAlert(r) ==
    LET q == Tail(r.queue)
    IN [r EXCEPT !.queue = q,
                 !.pc = IF q = <<>> THEN "return" ELSE "alertSave",
                 !.at = IF q = <<>> THEN 0 ELSE now]

RunOutcomes == {Outcome(TRUE, 200, 80), Outcome(TRUE, 200, 1500), Outcome(FALSE, 0, 10)}

\* The cron callback fires: performHealthCheck up to the storeCheckResult
\* call of updateMonitorWithResult. failStreak and upStreak count the
\* consecutive checks with verdict down and up, this one included.
RunHealthCheck(o) ==
    /\ run.pc = "idle"
    /\ run.done < MaxRunChecks
    /\ LET r == HealthCheckResult(run.cfg, o)
       IN run' = [run EXCEPT !.pc = "storeCheck", !.result = r,
                             !.transport = ~o.responded,
                             !.wasUp = (run.lastStatus = "up"),
                             !.prev = run.lastStatus,
                             !.status = "none", !.queue = <<>>, !.fired = {},
                             !.faulty = FALSE, !.dispatch = "none",
                             !.undelivered = {},
                             !.failStreak = IF r.success THEN 0 ELSE @ + 1,
                             !.upStreak = IF r.success THEN @ + 1 ELSE 0]
    /\ UNCHANGED <<wait, response, cronJob, firing, reload, sched, alerts, eval, now, db, checks, incidents, docs, monitoringJobs,
                   pipes, ops, started, requests>>

\* storeCheckResult resolves or rejects; monitor.updateStats is called: its
\* assignments to the in-memory document, then save() in flight.
RunStoreCheck(ok) ==
    /\ run.pc = "storeCheck"
    /\ ok \/ run.faults < MaxFaults
    /\ LET r0 == IF ok THEN run ELSE Fault(run)
       IN run' = [r0 EXCEPT !.pc = IF ok THEN "updateStats" ELSE Caught("storeCheck"),
                            !.lastStatus = IF run.result.success THEN "up" ELSE "down",
                            !.lastResponseTime = run.result.responseTime]
    /\ UNCHANGED <<wait, response, cronJob, firing, reload, sched, alerts, eval, now, db, checks, incidents, docs, monitoringJobs,
                   pipes, ops, started, requests>>

\* monitor.updateStats resolves: the status change is handled
\* (Incident.create or Incident.findOne in flight). Or it rejects.
RunUpdateStats(ok) ==
    /\ run.pc = "updateStats"
    /\ ok \/ run.faults < MaxFaults
    /\ run' = IF ok
              THEN [run EXCEPT !.pc = StatusChange(run.wasUp, run.result.success)]
              ELSE [Fault(run) EXCEPT !.pc = Caught("updateStats")]
    /\ UNCHANGED <<wait, response, cronJob, firing, reload, sched, alerts, eval, now, db, checks, incidents, docs, monitoringJobs,
                   pipes, ops, started, requests>>

\* handleMonitorDown: Incident.create resolves, triggerAlerts(monitor,
\* incident, 'down') calls Alert.find. Or it rejects.
RunIncidentCreate(ok) ==
    /\ run.pc = "incidentCreate"
    /\ ok \/ run.faults < MaxFaults
    /\ run' = IF ok
              THEN [run EXCEPT !.pc = "alertFind", !.status = "down", !.open = @ + 1]
              ELSE [Fault(run) EXCEPT !.pc = Caught("incidentCreate")]
    /\ UNCHANGED <<wait, response, cronJob, firing, reload, sched, alerts, eval, now, db, checks, incidents, docs, monitoringJobs,
                   pipes, ops, started, requests>>

\* handleMonitorUp: Incident.findOne resolves with an open incident, whose
\* resolve() is then in flight, or with none, and triggerAlerts(monitor,
\* null, 'up') calls Alert.find. Or it rejects.
RunIncidentFind(ok) ==
    /\ run.pc = "incidentFind"
    /\ ok \/ run.faults < MaxFaults
    /\ run' = IF ~ok THEN [Fault(run) EXCEPT !.pc = Caught("incidentFind")]
              ELSE IF run.open > 0 THEN [run EXCEPT !.pc = "incidentResolve"]
              ELSE [run EXCEPT !.pc = "alertFind", !.status = "up"]
    /\ UNCHANGED <<wait, response, cronJob, firing, reload, sched, alerts, eval, now, db, checks, incidents, docs, monitoringJobs,
                   pipes, ops, started, requests>>

\* handleMonitorUp: activeIncident.resolve resolves, triggerAlerts calls
\* Alert.find. Or it rejects.
RunIncidentResolve(ok) ==
    /\ run.pc = "incidentResolve"
    /\ ok \/ run.faults < MaxFaults
    /\ run' = IF ok
              THEN [run EXCEPT !.pc = "alertFind", !.status = "up", !.open = @ - 1]
              ELSE [Fault(run) EXCEPT !.pc = Caught("incidentResolve")]
    /\ UNCHANGED <<wait, response, cronJob, firing, reload, sched, alerts, eval, now, db, checks, incidents, docs, monitoringJobs,
                   pipes, ops, started, requests>>

\* triggerAlerts: Alert.find resolves; the loop reaches the first alert
\* that should trigger and calls alert.trigger (save() in flight), or ends.
\* Or Alert.find rejects.
RunAlertFind(ok) ==
    /\ run.pc = "alertFind"
    /\ ok \/ run.faults < MaxFaults
    /\ run' = IF ~ok THEN [Fault(run) EXCEPT !.pc = Caught("alertFind")]
              ELSE LET q == AlertsToTrigger(MonitorData(run.status, run.lastResponseTime))
                   IN [run EXCEPT !.queue = q,
                                  !.pc = IF q = <<>> THEN "return" ELSE "alertSave",
                                  !.at = IF q = <<>> THEN 0 ELSE now]
    /\ UNCHANGED <<wait, response, cronJob, firing, reload, sched, alerts, eval, now, db, checks, incidents, docs, monitoringJobs,
                   pipes, ops, started, requests>>

\* triggerAlert: the save() of alert.trigger resolves: the alert is stored
\* with the firing, and sendMonitorAlert is called when the email channel is
\* active (else Promise.allSettled([]) resolves and the loop goes on). Or
\* the save() rejects.
RunAlertSave(ok) ==
    /\ run.pc = "alertSave"
    /\ ok \/ run.faults < MaxFaults
    /\ LET r == Head(run.queue)
       IN IF ~ok
          THEN /\ run' = IF Caught("alertSave") = "nextAlert"
                         THEN NextAlert(Fault(run))
                         ELSE [Fault(run) EXCEPT !.pc = Caught("alertSave")]
               /\ alerts' = alerts
          ELSE /\ alerts' = [alerts EXCEPT ![r] = Trigger(@, run.at)]
               /\ run' = IF GetActiveChannels(alerts[r]) # <<>>
                         THEN [run EXCEPT !.fired = @ \cup {r}, !.pc = "dispatch",
                                          !.dispatch = "none", !.at = 0]
                         ELSE NextAlert([run EXCEPT !.fired = @ \cup {r}])
    /\ UNCHANGED <<wait, response, cronJob, firing, reload, sched, eval, now, db, checks, incidents, docs, monitoringJobs,
                   pipes, ops, started, requests>>

\* triggerAlert: sendMonitorAlert resolves or rejects, Promise.allSettled
\* resolves either way; the loop goes on.
RunDispatch(ok) ==
    /\ run.pc = "dispatch"
    /\ ok \/ run.faults < MaxFaults
    /\ LET r == Head(run.queue)
       IN run' = IF ok
                 THEN NextAlert([run EXCEPT !.dispatch = "sent", !.notified[r] = @ + 1])
                 ELSE LET f == [Fault(run) EXCEPT !.dispatch = "failed",
                                                  !.undelivered = @ \cup {r}]
                      IN IF Caught("dispatch") = "nextAlert" THEN NextAlert(f)
                         ELSE [f EXCEPT !.pc = Caught("dispatch")]
    /\ UNCHANGED <<wait, response, cronJob, firing, reload, sched, alerts, eval, now, db, checks, incidents, docs, monitoringJobs,
                   pipes, ops, started, requests>>

\* performHealthCheck returns its result to the cron callback, or rejects
\* to it; the callback logs a rejection.
RunReturn ==
    /\ run.pc \in {"return", "rejected"}
    /\ run' = [run EXCEPT !.pc = "idle", !.done = @ + 1]
    /\ UNCHANGED <<wait, response, cronJob, firing, reload, sched, alerts, eval, now, db, checks, incidents, docs, monitoringJobs,
                   pipes, ops, started, requests>>

\* Alert documents the first rule is drawn from: every type, status and
\* threshold; rules outside their schedule; rules without a channel; rules
\* that have fired 99 and 100 times.
RuleTypes == {"downtime", "uptime", "slow_response"}
RuleConfigs ==
    {StoredAlert(t, s, n, FALSE, TRUE, 0) :
        t \in RuleTypes, s \in {"active", "paused"}, n \in {1, 2}}
    \cup {StoredAlert(t, "active", 1, TRUE, TRUE, 0) : t \in RuleTypes}
    \cup {StoredAlert(t, "active", 1, FALSE, FALSE, 0) : t \in RuleTypes}
    \cup {StoredAlert(t, "active", 1, FALSE, TRUE, n) :
            t \in RuleTypes, n \in {HistoryCap - 1, HistoryCap}}
RunConfigs == {[DefaultConfig EXCEPT !.type = t] : t \in {"website", "server", "port"}}

RunInit ==
    /\ wait = NoWait
    /\ response = NoResponse
    /\ cronJob = NoCronJob
    /\ firing = NoFiring
    /\ reload = NoReload
    /\ sched = NoSched
    /\ alerts \in {[r \in RuleIds |-> IF r = 1 THEN a ELSE DefaultAlert(t)] :
                      a \in RuleConfigs, t \in {"downtime", "uptime"}}
    /\ run \in {[IdleRun EXCEPT !.cfg = c] : c \in RunConfigs}
    /\ now = 0
    /\ db = [m \in MonitorIds |-> Unborn]
    /\ checks = [m \in MonitorIds |-> 0]
    /\ incidents = <<>>
    /\ docs = <<>>
    /\ monitoringJobs = [m \in MonitorIds |-> 0]
    /\ pipes = [p \in PipeIds |-> IdlePipe]
    /\ ops = [m \in MonitorIds |-> NoOp]
    /\ started = 0
    /\ requests = 0
    /\ eval = NoEval

RunNext ==
    \/ Tick
    \/ \E o \in RunOutcomes : RunHealthCheck(o)
    \/ \E ok \in BOOLEAN : RunStoreCheck(ok)
    \/ \E ok \in BOOLEAN : RunUpdateStats(ok)
    \/ \E ok \in BOOLEAN : RunIncidentCreate(ok)
    \/ \E ok \in BOOLEAN : RunIncidentFind(ok)
    \/ \E ok \in BOOLEAN : RunIncidentResolve(ok)
    \/ \E ok \in BOOLEAN : RunAlertFind(ok)
    \/ \E ok \in BOOLEAN : RunAlertSave(ok)
    \/ \E ok \in BOOLEAN : RunDispatch(ok)
    \/ RunReturn

SpecRun == RunInit /\ [][RunNext]_vars

\* --------------------------------------------- one rule with a schedule
\* Schedules, instants and zones one shouldTrigger call is drawn from: the
\* rule's timezone is UTC, UTC+3 or UTC-5; the process runs in UTC or UTC+3.
RuleZones == {0, 3, -5}
ProcessZones == {0, 3}
SchedDays == {{Monday}, {Monday, Tuesday}, Days}
SchedWindows == {<<NoTime, NoTime>>, <<9, 17>>, <<0, 23>>}
SchedInstants == {[day |-> d, hour |-> h] : d \in {0, Monday, Tuesday}, h \in {1, 7, 10, 15, 22}}
Schedules ==
    {[enabled |-> e, timezone |-> z, days |-> d, startTime |-> w[1], endTime |-> w[2]] :
        e \in BOOLEAN, z \in RuleZones, d \in SchedDays, w \in SchedWindows}

\* The downtime rule of the monitor with schedule s, as stored, looked at
\* at instant t by a process in the zone.
ScheduledAlert(s, t, zone) ==
    StoredAlert("downtime", "active", 1, s.enabled /\ ~IsWithinSchedule(s, t, zone),
                TRUE, 0)

SchedInit ==
    /\ wait = NoWait
    /\ response = NoResponse
    /\ cronJob = NoCronJob
    /\ firing = NoFiring
    /\ reload = NoReload
    /\ sched \in {[NoSched EXCEPT !.schedule = s, !.t = t, !.zone = z] :
                    s \in Schedules, t \in SchedInstants, z \in ProcessZones}
    /\ alerts = NoAlerts
    /\ run = IdleRun
    /\ now = 0
    /\ db = [m \in MonitorIds |-> Unborn]
    /\ checks = [m \in MonitorIds |-> 0]
    /\ incidents = <<>>
    /\ docs = <<>>
    /\ monitoringJobs = [m \in MonitorIds |-> 0]
    /\ pipes = [p \in PipeIds |-> IdlePipe]
    /\ ops = [m \in MonitorIds |-> NoOp]
    /\ started = 0
    /\ requests = 0
    /\ eval = NoEval

\* triggerAlerts of a monitor that went down calls alert.shouldTrigger on
\* the rule: its condition holds, the schedule decides.
SchedShouldTrigger ==
    /\ sched.by = "none"
    /\ sched' = [sched EXCEPT
            !.result = ShouldTrigger(ScheduledAlert(sched.schedule, sched.t, sched.zone),
                                     MonitorData("down", 0)),
            !.by = "shouldTrigger"]
    /\ UNCHANGED <<wait, response, cronJob, firing, reload, alerts, run, eval, now, db, checks, incidents, docs, monitoringJobs,
                   pipes, ops, started, requests>>

\* isWithinSchedule called on its own.
SchedIsWithin ==
    /\ sched.by = "none"
    /\ sched' = [sched EXCEPT
            !.result = IsWithinSchedule(sched.schedule, sched.t, sched.zone),
            !.by = "isWithinSchedule"]
    /\ UNCHANGED <<wait, response, cronJob, firing, reload, alerts, run, eval, now, db, checks, incidents, docs, monitoringJobs,
                   pipes, ops, started, requests>>

SchedNext == SchedShouldTrigger \/ SchedIsWithin

SpecSched == SchedInit /\ [][SchedNext]_vars

\* ------------------------------------------ the registry of cron tasks
\* The monitoring service with two monitors: the reconciliation pass of
\* startMonitoringService, the controller requests that create, update,
\* toggle and delete monitors, and the firing of the cron tasks. The
\* process starts with the monitors its database holds and no cron task.
SvcIds == {"m1", "m2"}
SvcOrder == <<"m1", "m2">>      \* the order Monitor.find returns them in
BodyIntervals == {10, 60, 7200} \* monitoringInterval values of a request body

\* The min / max validators of monitoringInterval (Monitor.create, and
\* findOneAndUpdate with runValidators), and isInt({ min: 30, max: 3600 })
\* of validateMonitor where every validator passes.
ValidIntervalMutNoMax(i) == i >= MinMonitoringInterval

ValidInterval(i) == i >= MinMonitoringInterval /\ i <= MaxMonitoringInterval

\* createMonitor: validateMonitor, then Monitor.create, which validates and
\* stores the document; an invalid body is answered with an error
\* (handleValidationErrors, or next(error)). The request goes on to
\* addMonitorToService with the created document.
SvcCreateMonitor(m, i) ==
    /\ db[m].state = "unborn"
    /\ Idle(m)
    /\ requests < MaxOps
    /\ requests' = requests + 1
    /\ IF ValidInterval(i)
       THEN LET created == [NewMonitor EXCEPT !.monitoringInterval = i]
            IN /\ Len(docs) < MaxDocs
               /\ db' = [db EXCEPT ![m] = created]
               /\ docs' = Append(docs, Load(m, created))
               /\ ops' = [ops EXCEPT ![m] = [kind |-> "create", step |-> "add",
                                              doc |-> Len(docs) + 1]]
       ELSE UNCHANGED <<db, docs, ops>>
    /\ response' = [n |-> requests + 1, mon |-> m,
                    outcome |-> IF ValidInterval(i) THEN "created" ELSE "rejected"]
    /\ UNCHANGED <<wait, cronJob, firing, reload, sched, alerts, run, eval, now, checks, incidents,
                   monitoringJobs, pipes, started>>

\* createMonitor: addMonitorToService(monitor, req.io)
SvcCreateAdd(m) ==
    /\ ops[m].kind = "create"
    /\ LET s == AddMonitorToService(docs, monitoringJobs, ops[m].doc)
       IN docs' = s.docs /\ monitoringJobs' = s.jobs
    /\ ops' = [ops EXCEPT ![m] = NoOp]
    /\ UNCHANGED <<wait, response, cronJob, firing, reload, sched, alerts, run, eval, now, db, checks, incidents,
                   pipes, started, requests>>

\* updateMonitor: Monitor.findOneAndUpdate(..., req.body, { runValidators:
\* true }) with a body that sets monitoringInterval; the updated document is
\* sent back, or the validation error is (next(error)). The monitoring
\* service is not called.
UpdateMonitorInterval(m, i) ==
    /\ Exists(m)
    /\ requests < MaxOps
    /\ db[m].monitoringInterval # i
    /\ db' = IF ValidInterval(i) THEN [db EXCEPT ![m].monitoringInterval = i] ELSE db
    /\ requests' = requests + 1
    /\ response' = [n |-> requests + 1, mon |-> m,
                    outcome |-> IF ValidInterval(i) THEN "updated" ELSE "rejected"]
    /\ UNCHANGED <<wait, cronJob, firing, reload, sched, alerts, run, eval, now, checks, incidents, docs,
                   monitoringJobs, pipes, ops, started>>

\* updateMonitorInService(monitor, io) on in-memory document d.
UpdateMonitorInService(ds, jobs, d) ==
    LET s == StopMonitoringJob(ds, jobs, ds[d].mon)
    IN IF ds[d].status = "active" THEN AddMonitorToService(s.docs, s.jobs, d)
       ELSE s

\* loadActiveMonitors is called (at start and by the six-hourly cron task):
\* Monitor.find({ status: 'active' }) reads the collection.
LoadFind ==
    /\ reload.pc = "idle"
    /\ LET Active(m) == Exists(m) /\ db[m].status = "active"
           ids == SelectSeq(SvcOrder, Active)
       IN reload' = [NoReload EXCEPT
                        !.pc = "find",
                        !.found = [k \in 1..Len(ids) |-> Load(ids[k], db[ids[k]])]]
    /\ UNCHANGED <<wait, response, cronJob, firing, sched, alerts, run, eval, now, db, checks, incidents, docs,
                   monitoringJobs, pipes, ops, started, requests>>

\* The for loop of loadActiveMonitors over the documents found: a cron task
\* is started for each one whose id monitoringJobs does not hold.
RECURSIVE LoadAllMutFirstOnly(_, _)
LoadAllMutFirstOnly(s, found) ==
    IF found = <<>> THEN s
    ELSE IF s.jobs[Head(found).mon] = 0
    THEN StartMonitoringJob(Append(s.docs, Head(found)), s.jobs, Len(s.docs) + 1)
    ELSE LoadAllMutFirstOnly(s, Tail(found))

RECURSIVE LoadAll(_, _)
LoadAll(s, found) ==
    IF found = <<>> THEN s
    ELSE IF s.jobs[Head(found).mon] = 0
    THEN LoadAll(StartMonitoringJob(Append(s.docs, Head(found)), s.jobs, Len(s.docs) + 1),
                 Tail(found))
    ELSE LoadAll(s, Tail(found))

\* Monitor.find resolves and the loop runs, or it rejects and the catch of
\* loadActiveMonitors logs the error.
LoadDone(ok) ==
    /\ reload.pc = "find"
    /\ IF ok
       THEN LET s == LoadAll([docs |-> docs, jobs |-> monitoringJobs], reload.found)
            IN /\ Len(s.docs) <= MaxDocs
               /\ docs' = s.docs
               /\ monitoringJobs' = s.jobs
               /\ reload' = [NoReload EXCEPT !.outcome = "loaded",
                                             !.loaded = (Len(docs) + 1)..Len(s.docs)]
       ELSE /\ reload' = [NoReload EXCEPT !.outcome = "failed"]
            /\ UNCHANGED <<docs, monitoringJobs>>
    /\ UNCHANGED <<wait, response, cronJob, firing, sched, alerts, run, eval, now, db, checks, incidents,
                   pipes, ops, started, requests>>

\* The callback of a running cron task fires: performHealthCheck(monitor,
\* io) starts with the document the callback captured.
SvcTimerFire(d) ==
    /\ d <= Len(docs)
    /\ docs[d].timer = "running"
    /\ started < MaxChecks
    /\ started' = started + 1
    /\ firing' = [doc |-> d, mon |-> docs[d].mon,
                  monitoringInterval |-> docs[d].monitoringInterval]
    /\ UNCHANGED <<wait, response, cronJob, reload, sched, alerts, run, eval, now, db, checks, incidents, docs,
                   monitoringJobs, pipes, ops, requests>>

StoredMonitors == {Unborn, NewMonitor, [NewMonitor EXCEPT !.status = "paused"]}

SvcInit ==
    /\ wait = NoWait
    /\ response = NoResponse
    /\ cronJob = NoCronJob
    /\ db \in [SvcIds -> StoredMonitors]
    /\ monitoringJobs = [m \in SvcIds |-> 0]
    /\ ops = [m \in SvcIds |-> NoOp]
    /\ docs = <<>>
    /\ reload = NoReload
    /\ firing = NoFiring
    /\ sched = NoSched
    /\ alerts = NoAlerts
    /\ run = IdleRun
    /\ now = 0
    /\ checks = [m \in MonitorIds |-> 0]
    /\ incidents = <<>>
    /\ pipes = [p \in PipeIds |-> IdlePipe]
    /\ started = 0
    /\ requests = 0
    /\ eval = NoEval

SvcNext ==
    \/ LoadFind
    \/ \E ok \in BOOLEAN : LoadDone(ok)
    \/ \E d \in DocIds : SvcTimerFire(d)
    \/ \E m \in SvcIds, i \in BodyIntervals : SvcCreateMonitor(m, i)
    \/ \E m \in SvcIds : SvcCreateAdd(m)
    \/ \E m \in SvcIds, i \in BodyIntervals : UpdateMonitorInterval(m, i)
    \/ \E m \in SvcIds, s \in {"active", "paused"} : UpdateMonitor(m, s)
    \/ \E m \in SvcIds : ToggleMonitor(m)
    \/ \E m \in SvcIds : ToggleService(m)
    \/ \E m \in SvcIds : DeleteMonitor(m)
    \/ \E m \in SvcIds : DeleteStopJob(m)
    \/ \E m \in SvcIds : DeleteIncidents(m)

SpecSvc == SvcInit /\ [][SvcNext]_vars

\* The six-hourly cron task keeps calling loadActiveMonitors, and the
\* database does not fail every query for ever.
SpecSvcFair == SpecSvc /\ WF_vars(LoadFind) /\ SF_vars(LoadDone(TRUE))

\* ------------------------------------------------ the timing of a cron task
\* Times are seconds since midnight.
SecondsPerDay == 86400

\* getCronExpression: the field of the expression that carries the step
\* ("*/n"), and the step. Below a minute '*/n * * * * *', below an hour
\* '*/m * * * *' with m = floor(n / 60), else '0 */h * * *' with
\* h = floor(n / 3600).
GetCronExpression(intervalSeconds) ==
    IF intervalSeconds < 60 THEN [field |-> "second", step |-> intervalSeconds]
    ELSE IF intervalSeconds < 3600
    THEN [field |-> "minute", step |-> intervalSeconds \div 60]
    ELSE [field |-> "hour", step |-> intervalSeconds \div 3600]

\* The length in seconds of one value of the stepped field, and the number
\* of values the field runs through (0..59 or 0..23).
FieldUnit(e) == IF e.field = "second" THEN 1 ELSE IF e.field = "minute" THEN 60 ELSE 3600
FieldRange(e) == IF e.field = "hour" THEN 24 ELSE 60

\* The first time after firing time t at which the expression matches: the
\* next multiple of the step within the field's range, else value 0 of the
\* next round of the field (fields to the right of the stepped one are 0,
\* fields to the left are '*').
NextFiring(e, t) ==
    LET round == FieldUnit(e) * FieldRange(e)
        v == (t % round) \div FieldUnit(e)
        w == ((v \div e.step) + 1) * e.step
    IN IF w < FieldRange(e) THEN (t \div round) * round + w * FieldUnit(e)
       ELSE ((t \div round) + 1) * round

\* Allowed monitoringInterval values the task is drawn from.
CronIntervals == {30, 45, 60, 90, 300, 3600}

CronInit ==
    /\ wait = NoWait
    /\ response = NoResponse
    /\ cronJob \in {[NoCronJob EXCEPT !.interval = i] : i \in CronIntervals}
    /\ firing = NoFiring
    /\ reload = NoReload
    /\ sched = NoSched
    /\ alerts = NoAlerts
    /\ run = IdleRun
    /\ now = 0
    /\ db = [m \in MonitorIds |-> Unborn]
    /\ checks = [m \in MonitorIds |-> 0]
    /\ incidents = <<>>
    /\ docs = <<>>
    /\ monitoringJobs = [m \in MonitorIds |-> 0]
    /\ pipes = [p \in PipeIds |-> IdlePipe]
    /\ ops = [m \in MonitorIds |-> NoOp]
    /\ started = 0
    /\ requests = 0
    /\ eval = NoEval

\* The task of startMonitoringJob, which fired at midnight, fires again.
CronFire ==
    /\ LET next == NextFiring(GetCronExpression(cronJob.interval), cronJob.at)
       IN cronJob' = [cronJob EXCEPT !.at = next % SecondsPerDay,
                                     !.gap = next - cronJob.at]
    /\ UNCHANGED <<wait, response, firing, reload, sched, alerts, run, eval, now, db, checks, incidents,
                   docs, monitoringJobs, pipes, ops, started, requests>>

CronNext == CronFire

SpecCron == CronInit /\ [][CronNext]_vars

\* ------------------------------------------------------------------ claims
\* A step of pipeline p: only its own actions change pipes[p].
PipeStep(p) == pipes'[p] # pipes[p]
IsCheck(p) == pipes[p].kind \in {"scheduled", "initial"}
InFlight(p) == pipes[p].pc \notin {"idle", "return"}

\* A cron task of monitor m fires in this step.
TimerFires(m) ==
    \E p \in PipeIds : /\ pipes[p].pc = "idle"
                        /\ pipes'[p].pc = "probe"
                        /\ pipes'[p].kind = "scheduled"
                        /\ pipes'[p].mon = m

PipelineOpen(m) ==
    {i \in OpenIncidents(m) : incidents[i].origin = "pipeline"}

\* C1: every monitor has at most one open (status other than 'resolved')
\* incident among those the check pipeline created.
C1_AtMostOneOpenIncident ==
    \A m \in MonitorIds : Cardinality(PipelineOpen(m)) <= 1

\* C2: at most one scheduled pipeline execution of a cron task is in flight
\* at any time: a firing never overlaps the previous one.
C2_NoOverlappingFirings ==
    \A d \in 1..Len(docs) :
        Cardinality({p \in PipeIds : /\ InFlight(p)
                                      /\ pipes[p].kind = "scheduled"
                                      /\ pipes[p].doc = d}) <= 1

\* C3: whenever no check of a monitor is in flight, its persisted counters
\* satisfy totalChecks = successfulChecks + failedChecks.
C3_CountersAddUp ==
    \A m \in MonitorIds :
        (Exists(m) /\ \A p \in PipeIds : pipes[p].mon # m)
            => db[m].totalChecks = db[m].successfulChecks + db[m].failedChecks

\* C4: a check with verdict down on a monitor whose previous status was up
\* or unknown, once its stats are saved, creates a new incident with status
\* 'investigating', startedAt = now and description = the verdict reason.
C4_DownOpensIncident ==
    [][\A p \in PipeIds :
        /\ ( /\ pipes[p].pc = "docSave" /\ PipeStep(p)
             /\ Exists(pipes[p].mon)
             /\ pipes[p].prev \in {"up", "unknown"}
             /\ ~pipes[p].result.success )
           => (pipes'[p].pc = "incidentCreate" /\ pipes'[p].at = now)
        /\ (pipes[p].pc = "incidentCreate" /\ PipeStep(p))
           => incidents' = Append(incidents,
                [monitor |-> pipes[p].mon, status |-> "investigating",
                 startedAt |-> pipes[p].at, resolvedAt |-> Unset, duration |-> 0,
                 updates |-> <<>>, description |-> pipes[p].result.error,
                 origin |-> "pipeline", stored |-> TRUE])
      ]_vars

\* C5: a check with verdict up on a monitor whose previous status was down
\* and which has an open incident resolves exactly that incident: it does
\* not finish while the monitor still has an open incident it did not
\* resolve, and the resolution sets status 'resolved', appends a 'resolved'
\* update, sets resolvedAt = the time of resolution and duration =
\* round(resolvedAt - startedAt) in minutes, which is not negative; no other
\* incident is modified.
C5_UpResolvesIncident ==
    [][\A p \in PipeIds :
        /\ ( /\ IsCheck(p) /\ PipeStep(p)
             /\ pipes[p].pc \in {"findById", "freshSave", "docSave", "incidentFind"}
             /\ pipes[p].prev = "down" /\ pipes[p].result.success
             /\ Exists(pipes[p].mon)
             /\ OpenIncidents(pipes[p].mon) # {} )
           => pipes'[p].pc # "return"
        /\ ( /\ pipes[p].pc = "incidentSave" /\ PipeStep(p)
             /\ pipes[p].prev = "down" /\ pipes[p].result.success
             /\ incidents[pipes[p].inc].stored )
           => LET i == pipes[p].inc
                  old == incidents[i]
                  new == incidents'[i]
              IN /\ new.status = "resolved"
                 /\ new.updates = Append(old.updates, "resolved")
                 /\ new.resolvedAt = pipes[p].at
                 /\ new.duration = RoundMinutes(new.resolvedAt - old.startedAt)
                 /\ new.duration >= 0
                 /\ \A j \in IncidentIds : j # i => incidents'[j] = incidents[j]
      ]_vars

\* C6: a check whose verdict equals the previous status its pipeline read
\* (up -> up, down -> down) neither creates nor resolves an incident: no
\* step of that pipeline changes the incidents or enters the incident
\* handling.
C6_RepeatLeavesIncidents ==
    [][\A p \in PipeIds :
        ( /\ IsCheck(p) /\ PipeStep(p)
          /\ pipes[p].pc \notin {"idle", "probe"}
          /\ \/ pipes[p].prev = "up" /\ pipes[p].result.success
             \/ pipes[p].prev = "down" /\ ~pipes[p].result.success )
        => /\ incidents' = incidents
           /\ pipes'[p].pc \notin {"incidentCreate", "incidentFind", "incidentSave"}
      ]_vars

\* C6 witness: a down -> down check has saved its stats and returns while
\* its monitor has an open incident.
C6_Witness ==
    \E p \in PipeIds :
        /\ pipes[p].pc = "return" /\ pipes[p].kind = "scheduled"
        /\ pipes[p].prev = "down" /\ ~pipes[p].result.success
        /\ Exists(pipes[p].mon)
        /\ db[pipes[p].mon].failedChecks >= 2
        /\ OpenIncidents(pipes[p].mon) # {}

\* C7: once a delete request for a monitor has been answered, no cron task
\* fires for that monitor.
C7_NoFiringAfterDelete ==
    [][\A m \in MonitorIds :
        (db[m].state = "deleted" /\ Idle(m)) => ~TimerFires(m)]_vars

\* C8: while a monitor is stored as paused and no request on it is in
\* progress, no cron task fires for it.
C8_NoFiringWhilePaused ==
    [][\A m \in MonitorIds :
        (Exists(m) /\ db[m].status = "paused" /\ Idle(m)) => ~TimerFires(m)]_vars

\* C9: a step of a check pipeline whose monitor is deleted writes nothing:
\* no check record, no monitor document, no incident.
C9_DeletedMonitorNoWrite ==
    [][\A p \in PipeIds :
        (IsCheck(p) /\ PipeStep(p) /\ db[pipes[p].mon].state = "deleted")
        => (checks' = checks /\ incidents' = incidents /\ db' = db)]_vars

\* C10: with expectedStatus set, a completed HTTP probe (website, api or
\* port monitor) whose status code differs from it yields verdict down with
\* a reason that cites the status, whatever the response time.
C10_StatusMismatchIsDown ==
    ( /\ eval.by = "performHealthCheck"
      /\ eval.cfg.type # "server"
      /\ eval.cfg.expectedStatus # 0
      /\ eval.probe.responded
      /\ eval.probe.statusCode # eval.cfg.expectedStatus )
    => /\ eval.result.status = "down"
       /\ ~eval.result.success
       /\ eval.result.error \in {"expected_status", "request_failed_status"}

\* C11: with expectedResponseTime set, a completed probe of any kind whose
\* status meets the expectations and whose response time is greater than
\* expectedResponseTime yields verdict down with the slow-response reason.
C11_SlowResponseIsDown ==
    ( /\ eval.by = "performHealthCheck"
      /\ eval.cfg.expectedResponseTime # 0
      /\ eval.probe.responded
      /\ eval.cfg.type # "server"
            => /\ ValidateStatus(eval.probe.statusCode)
               /\ eval.cfg.expectedStatus \in {0, eval.probe.statusCode}
      /\ eval.probe.responseTime > eval.cfg.expectedResponseTime )
    => /\ eval.result.status = "down"
       /\ ~eval.result.success
       /\ eval.result.error = "response_time"

\* C12: performHealthCheck never rejects to its caller, whatever awaited
\* call fails, and a transport-level failure of the probe is returned as
\* verdict down with a reason.
C12_NeverRejects ==
    /\ run.pc # "rejected"
    /\ run.transport => /\ run.result.status = "down"
                        /\ ~run.result.success
                        /\ run.result.error # "null"

\* C12 witness: a check whose probe failed at transport level and one of
\* whose writes was rejected has returned its result.
C12_Witness ==
    run.pc = "return" /\ run.transport /\ run.faulty

\* C13: on an up -> down or down -> up check, a rejected check-record write
\* or stats write does not keep the pipeline from the incident handling:
\* the step after either write goes on towards handleMonitorDown /
\* handleMonitorUp.
C13_WriteFailureStillHandlesEdge ==
    [][( /\ run.pc \in {"storeCheck", "updateStats"}
         /\ run'.pc # run.pc
         /\ \/ run.prev = "up" /\ ~run.result.success
            \/ run.prev = "down" /\ run.result.success )
       => run'.pc \in {"updateStats", "incidentCreate", "incidentFind"}]_vars

CheckEnds == run.pc = "return" /\ run'.pc = "idle"

\* A rule that is active and not held back by its schedule.
Armed(r) == alerts[r].status = "active" /\ ~alerts[r].offSchedule

\* C15: an armed downtime rule with downtimeThreshold N fires on a check
\* (none of whose awaited calls failed, previous status up or down) exactly
\* when the verdict is down and the monitor has failed at least N checks
\* in a row.
C15_DowntimeFiresAtThreshold ==
    [][(CheckEnds /\ ~run.faulty /\ run.prev # "unknown")
       => \A r \in RuleIds :
            (Armed(r) /\ alerts[r].type = "downtime")
            => (r \in run.fired
                  <=> /\ ~run.result.success
                      /\ run.failStreak >= alerts[r].downtimeThreshold)]_vars

\* C16: an armed uptime rule fires on a check (none of whose awaited calls
\* failed) exactly when the verdict is up and the monitor has succeeded at
\* least threshold checks in a row.
C16_UptimeFiresAtThreshold ==
    [][(CheckEnds /\ ~run.faulty)
       => \A r \in RuleIds :
            (Armed(r) /\ alerts[r].type = "uptime")
            => (r \in run.fired
                  <=> /\ run.result.success
                      /\ run.upStreak >= alerts[r].downtimeThreshold)]_vars

\* C17: every armed rule is evaluated after every completed check: an armed
\* slow_response rule fires on every check (none of whose awaited calls
\* failed) whose response time exceeds responseTimeThreshold, edge or not.
C17_SlowResponseEveryCheck ==
    [][(CheckEnds /\ ~run.faulty)
       => \A r \in RuleIds :
            (Armed(r) /\ alerts[r].type = "slow_response")
            => (r \in run.fired
                  <=> run.result.responseTime > alerts[r].responseTimeThreshold)]_vars

C20_DispatchFailureRecorded ==
    [][(run.pc = "dispatch" /\ run'.dispatch = "failed")
       => LET h == alerts'[Head(run.queue)].history
          IN /\ h[Len(h)].success = FALSE
             /\ h[Len(h)].error # "none"]_vars

InWindow(s, t) ==
    /\ LocalDay(t, s.timezone) \in s.days
    /\ (s.startTime # NoTime /\ s.endTime # NoTime)
        => (s.startTime <= LocalHour(t, s.timezone) /\ LocalHour(t, s.timezone) <= s.endTime)

\* C22: a rule with an enabled schedule whose condition is met fires
\* exactly when the current time, taken in the rule's timezone, lies inside
\* the schedule window.
C22_ScheduleInRuleTimezone ==
    (sched.by = "shouldTrigger" /\ sched.schedule.enabled)
    => (sched.result <=> InWindow(sched.schedule, sched.t))

\* An active monitor without a cron task, and a registry too full for the
\* model to hold another task for each of them.
Lost(m) == Exists(m) /\ db[m].status = "active" /\ monitoringJobs[m] = 0
NoRoom ==
    \/ Len(docs) + Cardinality({m \in SvcIds : Lost(m)}) > MaxDocs
    \/ /\ reload.pc = "find"
       /\ Len(LoadAll([docs |-> docs, jobs |-> monitoringJobs], reload.found).docs) > MaxDocs

C24_FiringUsesStoredConfig ==
    [][\A m \in SvcIds :
        (started' # started /\ firing'.mon = m /\ Exists(m) /\ Idle(m))
        => firing'.monitoringInterval = db[m].monitoringInterval]_vars

\* The cron task of document d is as it was after a change of the registry
\* from (ds, jobs) to s: not stopped, not restarted, still registered if it
\* was.
Untouched(ds, jobs, s, d) ==
    /\ s.docs[d].timer = ds[d].timer
    /\ jobs[ds[d].mon] = d => s.jobs[ds[d].mon] = d

\* C25: the cron task of a monitor B changes only in a request on B itself:
\* creating, toggling, deleting or updating another monitor A, and a
\* reconciliation pass, leave every existing task of B as it was; so does
\* updateMonitorInService called with a document of A.
C25_OtherTimersUntouched ==
    [][\A d \in 1..Len(docs) :
        /\ ops'[docs[d].mon] = ops[docs[d].mon]
           => Untouched(docs, monitoringJobs, [docs |-> docs', jobs |-> monitoringJobs'], d)
        /\ \A a \in 1..Len(docs) :
              docs[a].mon # docs[d].mon
              => Untouched(docs, monitoringJobs,
                           UpdateMonitorInService(docs, monitoringJobs, a), d)]_vars

\* C25 witness: the cron task of one monitor has been stopped and
\* unregistered while the task of the other monitor is registered and
\* running.
C25_Witness ==
    \E d \in 1..Len(docs) : \E a \in 1..Len(docs) :
        /\ docs[a].mon # docs[d].mon
        /\ docs[a].timer = "stopped" /\ monitoringJobs[docs[a].mon] = 0
        /\ docs[d].timer = "running" /\ monitoringJobs[docs[d].mon] = d

\* C26: consecutive firings of the cron task of a monitor with an allowed
\* interval i (30..3600) are exactly i seconds apart.
C26_FiresEveryInterval ==
    (cronJob.gap # 0 /\ ValidInterval(cronJob.interval))
    => cronJob.gap = cronJob.interval

\* An interval within the limits of the schema.
InBounds(i) == MinMonitoringInterval <= i /\ i <= MaxMonitoringInterval

C28_TestCheckChangesNothing ==
    [][\A p \in PipeIds :
        (pipes[p].kind = "test" /\ PipeStep(p))
        => /\ db' = db
           /\ incidents' = incidents
           /\ alerts' = alerts
           /\ docs' = docs
           /\ monitoringJobs' = monitoringJobs]_vars

\* ------------------------------------------- one monitor, check after check
\* A monitor that is created and then checked by its cron task, each check
\* finished before the next firing, with no other request on it.
AllIdle == \A p \in PipeIds : pipes[p].pc = "idle"

\* The cron callback fires when the previous performHealthCheck has returned.
SeqTimerFire(d) ==
    /\ AllIdle
    /\ TimerFire(d)

SeqNext ==
    \/ Tick
    \/ \E m \in MonitorIds : CreateMonitor(m)
    \/ \E d \in DocIds : SeqTimerFire(d)
    \/ \E p \in PipeIds, o \in ProbeOutcomes : ProbeDone(p, o)
    \/ \E p \in PipeIds : CheckSaved(p)
    \/ \E p \in PipeIds : FindById(p)
    \/ \E p \in PipeIds : FreshSaved(p)
    \/ \E p \in PipeIds : DocSaved(p)
    \/ \E p \in PipeIds : IncidentCreated(p)
    \/ \E p \in PipeIds : IncidentFound(p)
    \/ \E p \in PipeIds : IncidentSaved(p)
    \/ \E p \in PipeIds : PipeReturn(p)

SpecSeq == Init /\ [][SeqNext]_vars

\* The check of pipeline p has run to its end and is the n-th of the monitor.
Finished(p, n) == pipes[p].pc = "return" /\ started = n

\* What the probe of pipeline p returned.
Returned200(p) == pipes[p].result.statusCode = 200 /\ pipes[p].result.responseTime = 80
Refused(p) == pipes[p].result.statusCode = 0 /\ pipes[p].result.error = "transport_error"

\* C29: for a new monitor with expectedStatus 200, a first probe returning
\* 200 gives verdict up, totalChecks 1 and no incident; a following probe
\* that is refused gives verdict down and creates an incident with status
\* investigating; a third probe returning 200 gives verdict up and resolves
\* that incident with the duration computed from its two dates.
C29_EndToEnd ==
    \A p \in PipeIds :
        LET m == pipes[p].mon
            d == pipes[p].doc
        IN /\ (Finished(p, 1) /\ Returned200(p))
              => /\ pipes[p].result.status = "up"
                 /\ db[m].lastStatus = "up"
                 /\ db[m].totalChecks = 1
                 /\ incidents = <<>>
           /\ (Finished(p, 2) /\ pipes[p].prev = "up" /\ Refused(p))
              => /\ pipes[p].result.status = "down"
                 /\ db[m].lastStatus = "down"
                 /\ Len(incidents) = 1
                 /\ incidents[1].monitor = m
                 /\ incidents[1].status = "investigating"
           /\ (Finished(p, 3) /\ pipes[p].prev = "down" /\ Returned200(p)
                /\ docs[d].successfulChecks = 2 /\ docs[d].failedChecks = 1)
              => /\ pipes[p].result.status = "up"
                 /\ db[m].lastStatus = "up"
                 /\ Len(incidents) = 1
                 /\ incidents[1].status = "resolved"
                 /\ incidents[1].resolvedAt >= incidents[1].startedAt
                 /\ incidents[1].duration
                      = RoundMinutes(incidents[1].resolvedAt - incidents[1].startedAt)

\* The third check of the scenario has resolved the incident of the second,
\* a minute or more after it began.
C29_Witness ==
    \E p \in PipeIds :
        /\ Finished(p, 3) /\ pipes[p].prev = "down" /\ Returned200(p)
        /\ docs[pipes[p].doc].successfulChecks = 2
        /\ docs[pipes[p].doc].failedChecks = 1
        /\ Len(incidents) = 1
        /\ incidents[1].status = "resolved"
        /\ incidents[1].duration = 1

\* C30: in every persisted state of a monitor, successfulChecks +
\* failedChecks <= totalChecks, and the stored uptime is the percentage of
\* the persisted counters rounded to two decimals (0 when totalChecks is 0),
\* so it lies between 0 and 100.
C30_CountersAndUptime ==
    \A m \in MonitorIds :
        Exists(m)
        => /\ db[m].successfulChecks + db[m].failedChecks <= db[m].totalChecks
           /\ db[m].uptime = UptimePercentage(db[m])
           /\ db[m].uptime >= 0 /\ db[m].uptime <= 10000

\* ------------------------------------------------- one check and its waits
\* One check of one monitor with the clock in seconds: the probe it awaits,
\* then the notification it awaits when an alert fires. A timer of n seconds
\* ends its call n seconds after the call was made, so the clock does not
\* pass that instant with the call still in flight.
MaxWaitTime == 14       \* the clock runs 0..MaxWaitTime seconds
MinTimeout == 5         \* timeout of the Monitor schema, in seconds: min
FallbackLimit == 5      \* Math.min(timeout, 5000) of the HEAD request, in seconds
WaitTimeouts == {MinTimeout, MinTimeout + 2}
WaitTypes == {"website", "port", "server"}
PingErrors == {"command_failed", "command_not_found"}
HeadOutcomes == {Outcome(TRUE, 200, 80), Outcome(TRUE, 404, 80),
                 Outcome(TRUE, 503, 80), Outcome(FALSE, 0, 10)}

Min(a, b) == IF a < b THEN a ELSE b

\* The HTTP fallback of pingServer that applies validateStatus: status < 500.
PingFallbackMutValidateStatus(e, head) ==
    IF head.responded /\ ValidateStatus(head.statusCode)
    THEN [success |-> TRUE, error |-> "null", via |-> "head"]
    ELSE [success |-> FALSE, error |-> e, via |-> "head"]

\* The HTTP fallback of pingServer after the ping command failed with error
\* e: axios.head with validateStatus: () => true; when it throws, the
\* failure result carries the error of the ping.
PingFallback(e, head) ==
    IF head.responded
    THEN [success |-> TRUE, error |-> "null", via |-> "head"]
    ELSE [success |-> FALSE, error |-> e, via |-> "head"]

WaitInit ==
    /\ wait \in {[NoWait EXCEPT !.type = t, !.timeout = n, !.isUrl = u] :
                    t \in WaitTypes, n \in WaitTimeouts, u \in BOOLEAN}
    /\ response = NoResponse
    /\ cronJob = NoCronJob
    /\ firing = NoFiring
    /\ reload = NoReload
    /\ sched = NoSched
    /\ alerts = NoAlerts
    /\ run = IdleRun
    /\ now = 0
    /\ db = [m \in MonitorIds |-> Unborn]
    /\ checks = [m \in MonitorIds |-> 0]
    /\ incidents = <<>>
    /\ docs = <<>>
    /\ monitoringJobs = [m \in MonitorIds |-> 0]
    /\ pipes = [p \in PipeIds |-> IdlePipe]
    /\ ops = [m \in MonitorIds |-> NoOp]
    /\ started = 0
    /\ requests = 0
    /\ eval = NoEval

WaitFrame ==
    UNCHANGED <<response, cronJob, firing, reload, sched, alerts, run, eval, db,
                checks, incidents, docs, monitoringJobs, pipes, ops, started,
                requests>>

\* A second passes.
WaitTick ==
    /\ wait.pc \notin {"idle", "done"}
    /\ now < MaxWaitTime
    /\ wait.limit = NoLimit \/ now - wait.opBegan < wait.limit
    /\ now' = now + 1
    /\ wait' = wait
    /\ WaitFrame

\* performHealthCheck begins its probe: pingServer(url, timeout * 1000),
\* whose ping command waits -W timeout seconds for a reply, or axios with
\* timeout: monitor.timeout * 1000.
WaitProbe ==
    /\ wait.pc = "idle"
    /\ wait' = [wait EXCEPT !.pc = IF wait.type = "server" THEN "ping" ELSE "request",
                            !.probeBegan = now, !.opBegan = now,
                            !.limit = wait.timeout]
    /\ now' = now
    /\ WaitFrame

\* The target answers the request, or the request fails (its timer
\* included); updateMonitorWithResult follows.
WaitRequestDone ==
    /\ wait.pc = "request"
    /\ wait' = [wait EXCEPT !.pc = "handle", !.limit = NoLimit]
    /\ now' = now
    /\ WaitFrame

\* The ping command ends: with a reply, with output that shows none, or
\* execAsync rejects with error e. On a rejection pingServer makes the HEAD
\* request when the host is an http(s) URL, and else returns the failure.
WaitPingDone(out, e) ==
    /\ wait.pc = "ping"
    /\ wait' =
         IF out = "reply"
         THEN [wait EXCEPT !.pc = "handle", !.limit = NoLimit,
                           !.ping = [success |-> TRUE, error |-> "null", via |-> "ping"]]
         ELSE IF out = "noReply"
         THEN [wait EXCEPT !.pc = "handle", !.limit = NoLimit,
                           !.ping = [success |-> FALSE, error |-> "ping_failed",
                                     via |-> "ping"]]
         ELSE IF wait.isUrl
         THEN [wait EXCEPT !.pc = "fallback", !.pingError = e, !.opBegan = now,
                           !.limit = Min(wait.timeout, FallbackLimit)]
         ELSE [wait EXCEPT !.pc = "handle", !.limit = NoLimit, !.pingError = e,
                           !.ping = [success |-> FALSE, error |-> e, via |-> "ping"]]
    /\ now' = now
    /\ WaitFrame

\* The HEAD request of the fallback ends.
WaitFallbackDone(head) ==
    /\ wait.pc = "fallback"
    /\ wait' = [wait EXCEPT !.pc = "handle", !.limit = NoLimit, !.head = head,
                            !.ping = PingFallback(wait.pingError, head)]
    /\ now' = now
    /\ WaitFrame

\* updateMonitorWithResult up to the end of the check, or up to the
\* sendMonitorAlert call of triggerAlert: resend.emails.send is awaited
\* through Promise.allSettled, with no timer.
WaitHandle(alerting) ==
    /\ wait.pc = "handle"
    /\ wait' = IF alerting
               THEN [wait EXCEPT !.pc = "dispatch", !.opBegan = now, !.limit = NoLimit]
               ELSE [wait EXCEPT !.pc = "done"]
    /\ now' = now
    /\ WaitFrame

\* The mail provider answers; the check ends.
WaitDispatchDone ==
    /\ wait.pc = "dispatch"
    /\ wait' = [wait EXCEPT !.pc = "done"]
    /\ now' = now
    /\ WaitFrame

WaitNext ==
    \/ WaitTick
    \/ WaitProbe
    \/ WaitRequestDone
    \/ \E out \in {"reply", "noReply", "throws"}, e \in PingErrors : WaitPingDone(out, e)
    \/ \E head \in HeadOutcomes : WaitFallbackDone(head)
    \/ \E alerting \in BOOLEAN : WaitHandle(alerting)
    \/ WaitDispatchDone

SpecWait == WaitInit /\ [][WaitNext]_vars

\* C31: the probe and the notification dispatch of a check are each in
\* flight for no longer than the monitor's configured timeout, so every
\* started check completes.
C31_WaitsBounded ==
    /\ wait.pc \in {"ping", "request", "fallback"}
         => now - wait.probeBegan <= wait.timeout
    /\ wait.pc = "dispatch" => now - wait.opBegan <= wait.timeout

\* pingServer has returned after its ping command failed with an error.
PingFailed == wait.pc \in {"handle", "dispatch", "done"} /\ wait.pingError # "null"

\* C33: for a server monitor whose ping command fails, when the target is
\* an http(s) URL the probe makes a HEAD request and reports success for any
\* response received, whatever its status code; when the target is not a URL
\* or the HEAD request fails too, it reports failure with the error of the
\* ping.
C33_PingFallback ==
    PingFailed
    => /\ (wait.isUrl /\ wait.head.responded)
            => wait.ping = [success |-> TRUE, error |-> "null", via |-> "head"]
       /\ (wait.isUrl /\ ~wait.head.responded)
            => wait.ping = [success |-> FALSE, error |-> wait.pingError, via |-> "head"]
       /\ ~wait.isUrl
            => wait.ping = [success |-> FALSE, error |-> wait.pingError, via |-> "ping"]

\* The ping command failed and the HEAD request was answered with 503.
C33_Witness ==
    /\ PingFailed
    /\ wait.isUrl
    /\ wait.head.responded
    /\ wait.head.statusCode = 503
    /\ wait.ping.success

\* The cron tasks of monitor m that are running.
RunningTimers(m) ==
    {d \in 1..Len(docs) : docs[d].mon = m /\ docs[d].timer = "running"}

\* C32: every monitor has at most one running timer, and every running
\* timer is the one monitoringJobs holds under its monitor's id.
C32_OneRegisteredTimer ==
    \A m \in DOMAIN monitoringJobs :
        /\ Cardinality(RunningTimers(m)) <= 1
        /\ \A d \in RunningTimers(m) : monitoringJobs[m] = d

\* No check of monitor m is in flight.
NoPipeline(m) == \A p \in PipeIds : pipes[p].mon # m

\* C34: whenever no pipeline of a monitor is in flight, the lastStatus of
\* the in-memory document its running cron task checks (the one wasUp is
\* read from) equals the persisted lastStatus of the monitor.
C34_CopyMatchesStored ==
    \A d \in 1..Len(docs) :
        (/\ docs[d].timer = "running"
         /\ Exists(docs[d].mon)
         /\ NoPipeline(docs[d].mon))
        => docs[d].lastStatus = db[docs[d].mon].lastStatus

\* C35: the persisted totalChecks of a monitor equals the number of check
\* records stored for it since its creation, once its checks have completed.
C35_TotalMatchesRecords ==
    \A m \in MonitorIds :
        (Exists(m) /\ NoPipeline(m)) => db[m].totalChecks = checks[m]

\* C36: when a check of a monitor has run to its end with the persisted
\* lastStatus up and no other check of the monitor is in flight, the monitor
\* has no open incident that the pipeline created.
C36_UpMeansNoOpenIncident ==
    \A p \in PipeIds :
        LET m == pipes[p].mon
        IN (/\ pipes[p].pc = "return"
            /\ pipes[p].kind \in {"initial", "scheduled"}
            /\ pipes[p].result.success
            /\ Exists(m)
            /\ db[m].lastStatus = "up"
            /\ \A q \in PipeIds \ {p} : pipes[q].mon # m)
           => PipelineOpen(m) = {}

\* C37: handleMonitorUp runs, and the notification of an 'uptime' rule is
\* dispatched, only in a check whose monitor was down before it: not in the
\* first successful check of a monitor whose previous status is unknown.
C37_RecoveryOnlyAfterDown ==
    /\ run.pc \in {"incidentFind", "incidentResolve"} => run.prev = "down"
    /\ (run.pc = "dispatch" /\ alerts[Head(run.queue)].type = "uptime")
         => run.prev = "down"

\* --------------------------------------------- incidents and their requests
\* One incident of a stored monitor and the requests of incidentController
\* on it, as the clock advances.
MaxUpdates == 2     \* updates pushed to the incident in one behaviour
IncidentStatuses == OpenStatuses \cup {"resolved"}
IncSlots == {1}

IncInit ==
    /\ incidents = <<NewIncident("m1", 0, "manual", "manual")>>
    /\ db = [m \in MonitorIds |-> NewMonitor]
    /\ now = 0
    /\ wait = NoWait
    /\ response = NoResponse
    /\ cronJob = NoCronJob
    /\ firing = NoFiring
    /\ reload = NoReload
    /\ sched = NoSched
    /\ alerts = NoAlerts
    /\ run = IdleRun
    /\ checks = [m \in MonitorIds |-> 0]
    /\ docs = <<>>
    /\ monitoringJobs = [m \in MonitorIds |-> 0]
    /\ pipes = [p \in PipeIds |-> IdlePipe]
    /\ ops = [m \in MonitorIds |-> NoOp]
    /\ started = 0
    /\ requests = 0
    /\ eval = NoEval

IncFrame ==
    UNCHANGED <<wait, response, cronJob, firing, reload, sched, alerts, run, eval,
                now, db, checks, docs, monitoringJobs, pipes, ops, started>>

\* addIncidentUpdate: Incident.findOne, incident.addUpdate(status, ...).
AddIncidentUpdate(i, status) ==
    /\ i <= Len(incidents) /\ incidents[i].stored
    /\ Len(incidents[i].updates) < MaxUpdates
    /\ incidents' = [incidents EXCEPT ![i] = AddUpdate(@, status, now)]
    /\ requests' = requests
    /\ IncFrame

\* resolveIncident: Incident.findOne, incident.resolve(resolutionMessage).
ResolveIncident(i) ==
    /\ i <= Len(incidents) /\ incidents[i].stored
    /\ Len(incidents[i].updates) < MaxUpdates
    /\ incidents' = [incidents EXCEPT ![i] = AddUpdate(@, "resolved", now)]
    /\ requests' = requests
    /\ IncFrame

\* updateIncident: Incident.findOneAndUpdate with a body that sets status.
UpdateIncident(i, status) ==
    /\ i <= Len(incidents) /\ incidents[i].stored
    /\ requests < MaxOps
    /\ incidents[i].status # status
    /\ incidents' = [incidents EXCEPT ![i].status = status]
    /\ requests' = requests + 1
    /\ IncFrame

IncNext ==
    \/ Tick
    \/ \E i \in IncSlots : ResolveIncident(i)
    \/ \E i \in IncSlots, st \in IncidentStatuses : AddIncidentUpdate(i, st)
    \/ \E i \in IncSlots, st \in IncidentStatuses : UpdateIncident(i, st)

SpecInc == IncInit /\ [][IncNext]_vars

\* C38: an incident has status 'resolved' exactly when its resolvedAt is
\* set, and a later addUpdate or resolve call leaves the resolvedAt and the
\* duration of a resolved incident as they are.
C38_ResolvedIsFinal ==
    /\ [](\A i \in 1..Len(incidents) :
            (incidents[i].status = "resolved") <=> (incidents[i].resolvedAt # Unset))
    /\ [][\A i \in 1..Len(incidents) :
            incidents[i].status = "resolved"
            => /\ incidents'[i].resolvedAt = incidents[i].resolvedAt
               /\ incidents'[i].duration = incidents[i].duration]_vars

\* ------------------------------------------------------ the incident cleanup
\* The periodic cleanup over two stored incidents, with the clock and the
\* dates of the incidents in days.
RetentionDays == 30     \* thirtyDaysAgo: getDate() - 30
MaxCleanDays == 33      \* the clock runs RetentionDays..MaxCleanDays
CleanResolvedAt == {Unset, 0, 1, 2}

\* The filter that leaves the status out.
CleanupMatchesMutNoStatus(inc, t) ==
    /\ inc.resolvedAt # Unset
    /\ inc.resolvedAt < t - RetentionDays

\* The filter of cleanupCompletedIncidents at time t: status 'resolved' and
\* resolvedAt: { $lt: thirtyDaysAgo }, which no unset date satisfies.
CleanupMatches(inc, t) ==
    /\ inc.status = "resolved"
    /\ inc.resolvedAt # Unset
    /\ inc.resolvedAt < t - RetentionDays

CleanIncidents ==
    {[NewIncident("m1", 0, "reason", o) EXCEPT !.status = st, !.resolvedAt = r] :
        o \in {"pipeline", "manual"}, st \in IncidentStatuses, r \in CleanResolvedAt}

CleanInit ==
    /\ incidents \in {<<a, b>> : a \in CleanIncidents, b \in CleanIncidents}
    /\ now = RetentionDays
    /\ db = [m \in MonitorIds |-> NewMonitor]
    /\ wait = NoWait
    /\ response = NoResponse
    /\ cronJob = NoCronJob
    /\ firing = NoFiring
    /\ reload = NoReload
    /\ sched = NoSched
    /\ alerts = NoAlerts
    /\ run = IdleRun
    /\ checks = [m \in MonitorIds |-> 0]
    /\ docs = <<>>
    /\ monitoringJobs = [m \in MonitorIds |-> 0]
    /\ pipes = [p \in PipeIds |-> IdlePipe]
    /\ ops = [m \in MonitorIds |-> NoOp]
    /\ started = 0
    /\ requests = 0
    /\ eval = NoEval

CleanFrame ==
    UNCHANGED <<wait, response, cronJob, firing, reload, sched, alerts, run, eval,
                db, checks, docs, monitoringJobs, pipes, ops, started, requests>>

\* A day passes.
CleanTick ==
    /\ now < MaxCleanDays
    /\ now' = now + 1
    /\ incidents' = incidents
    /\ CleanFrame

\* cleanupCompletedIncidents: Incident.deleteMany of the matching incidents.
CleanupCompletedIncidents ==
    /\ incidents' = [i \in IncidentIds |->
                        IF incidents[i].stored /\ CleanupMatches(incidents[i], now)
                        THEN [incidents[i] EXCEPT !.stored = FALSE]
                        ELSE incidents[i]]
    /\ now' = now
    /\ CleanFrame

CleanNext == CleanTick \/ CleanupCompletedIncidents

SpecClean == CleanInit /\ [][CleanNext]_vars

\* C39: the cleanup deletes only incidents with status 'resolved' whose
\* resolvedAt is more than 30 days in the past: never an open incident nor a
\* recently resolved one, so the open incidents of every monitor stay as
\* they are.
C39_CleanupOnlyOldResolved ==
    [][/\ \A i \in IncidentIds :
            (incidents[i].stored /\ ~incidents'[i].stored)
            => /\ incidents[i].status = "resolved"
               /\ incidents[i].resolvedAt # Unset
               /\ now - incidents[i].resolvedAt > RetentionDays
       /\ \A m \in MonitorIds : OpenIncidents(m)' = OpenIncidents(m)]_vars

\* The cleanup has deleted one incident and kept one resolved exactly 30
\* days ago.
C39_Witness ==
    \E i, j \in IncidentIds :
        /\ ~incidents[i].stored
        /\ incidents[j].stored
        /\ incidents[j].status = "resolved"
        /\ now - incidents[j].resolvedAt = RetentionDays

====
